---- MODULE Spec2Model ----
(***************************************************************************)
(* State-machine model of spicetestlib: the NetList handle (base.py), the  *)
(* Fault variants (faults.py) and the TestUtility variants                 *)
(* (test_utilities.py).                                                    *)
(*                                                                         *)
(* A Python method is modelled as an operator from a call context to a     *)
(* call context.  The context carries the netlist handle, the receiver     *)
(* object `self`, the pending exception `err` ("ok" while none is raised)  *)
(* and the return value `ret`.  A statement that follows a raised          *)
(* exception does nothing: every operator passes a context with            *)
(* err # "ok" through unchanged, so the mutations made before the raise    *)
(* stay in the context, as they stay in the Python objects.                *)
(*                                                                         *)
(* Strings are Python strings: references ("M1"), node names               *)
(* ("out_M1_open") and values are built with \o and ToString as the        *)
(* f-strings build them.                                                   *)
(***************************************************************************)
EXTENDS Integers, Sequences, FiniteSets, TLC

VARIABLES
    store,                      \* NetList.net: components by reference
    directives,                 \* NetList.net: the .meas directives
    fet_descriptor_index,       \* NetList._fet_descriptor_index
    source_descriptor_index,    \* NetList._source_descriptor_index
    resistor_descriptor_index,  \* NetList._resistor_descriptor_index
    ent,                        \* the Fault / TestUtility objects of the test script
    last,                       \* record of the most recent call and its outcome
    trail,                      \* the calls made on one entity since its inject
    alloc_log,                  \* the references the allocator handed out, in order
    store0,                     \* the store as loaded by NetList.__init__
    obs                         \* record of the most recent observation call

vars == <<store, directives, fet_descriptor_index, source_descriptor_index,
          resistor_descriptor_index, ent, last, trail, alloc_log, store0, obs>>

\* Largest descriptor index a call may reach (caps the three counters).
MaxIndex == 4

\* Longest alloc_log recorded by the allocator specification.
MaxAllocs == 4

\* Longest continuation of lifecycle calls tried to bring an entity back to
\* NOT_INJECTED.
MaxCalls == 4

----------------------------------------------------------------------------
\* Constants of the sources

\* Python None
None == "None"

STATE_NOT_INJECTED == 0
STATE_INJECTED == 1
STATE_ACTIVE == 2

\* NetList.__init__ defaults
ground_node == "0"
supply_node == "VDD"
\* A voltage is a Python float.  The model counts it in steps of half a
\* tenth of a volt: an even count 2k is the double nearest to k/10 V, the odd
\* count 2k - 1 is the double next below that one (one unit in the last
\* place), so that the order of the doubles is the order of the counts.
Tenth == 2

\* vdd = 3.3, vss = 0
vdd == 33 * Tenth
vss == 0

\* InverterObserver.LOGIC_MARGIN = 0.1
LOGIC_MARGIN == 1 * Tenth

\* a - b in binary floating point.  3.3 - 0.1 is not the double nearest to
\* 3.2 but the one next below it, 3.1999999999999997; the other differences
\* of tenths taken here are the nearest doubles.
FloatSub(a, b) ==
    IF a = 33 * Tenth /\ b = 1 * Tenth THEN 32 * Tenth - 1 ELSE a - b

\* The text Python writes for a voltage v (str(3.3) = "3.3", str(0) = "0",
\* str(3.3 - 0.1) = "3.1999999999999997").
VoltText(v) ==
    IF v = 32 * Tenth - 1 THEN "3.1999999999999997"
    ELSE LET t == v \div Tenth
         IN IF t % 10 = 0 THEN ToString(t \div 10)
            ELSE ToString(t \div 10) \o "." \o ToString(t % 10)

NMOS_MODEL == "BSS123"
PMOS_MODEL == "BSS84"
INJECTION_TIMING == "10n 10n 10n 1u"

\* Times are counted in nanoseconds: TRIGGER_TIME = 10e-9
TRIGGER_TIME == 10

\* The default of a measurement that never triggered and the offset of an
\* observation without a transition: -1 (a second), in nanoseconds.
NOT_TRIGGERED == -1000000000

\* MeasureObserver.LOW_VALUE, UNCERTAIN_VALUE, HIGH_VALUE
LOW_VALUE == -1
UNCERTAIN_VALUE == 0
HIGH_VALUE == 1

OPEN_RESISTANCE == "1e11"
COUPLING_RESISTANCE == "5e11"
GATE_RESISTANCE == "1e12"
SHORT_RESISTANCE == "1"

RESULT_NAME_POSTFIX == "_OBSERVE"
NODE_POSTFIX == "_INVERTER"
NMOS_GATE_NODE_POSTFIX == "_INJ_TRIG_DOWN"
PMOS_GATE_NODE_POSTFIX == "_INJ_TRIG_UP"

\* str.startswith
StartsWith(s, p) == Len(s) >= Len(p) /\ SubSeq(s, 1, Len(p)) = p

\* str.lower
LowerCase ==
    [A |-> "a", B |-> "b", C |-> "c", D |-> "d", E |-> "e", F |-> "f", G |-> "g",
     H |-> "h", I |-> "i", J |-> "j", K |-> "k", L |-> "l", M |-> "m", N |-> "n",
     O |-> "o", P |-> "p", Q |-> "q", R |-> "r", S |-> "s", T |-> "t", U |-> "u",
     V |-> "v", W |-> "w", X |-> "x", Y |-> "y", Z |-> "z"]
LowerChar(ch) == IF ch \in DOMAIN LowerCase THEN LowerCase[ch] ELSE ch
RECURSIVE LowerEach(_)
LowerEach(s) ==
    IF Len(s) = 0 THEN ""
    ELSE LowerChar(SubSeq(s, 1, 1)) \o LowerEach(SubSeq(s, 2, Len(s)))

\* The names the library builds for its measurements, with their lower-case
\* forms worked out once.
MeasurementNames ==
    {node \o "_OBSERVE" \o level \o edge \o at :
        node \in {"out", "out_INVERTER"}, level \in {"_LOW", "_HIGH"},
        edge \in {"_FALL", "_RISE"}, at \in {"", "_at"}}
Lowered == [s \in MeasurementNames |-> LowerEach(s)]
Lower(s) == IF s \in MeasurementNames THEN Lowered[s] ELSE LowerEach(s)

\* The exceptions of errors.py that report an illegal lifecycle call.
LifecycleErrors == {"AlreadyInjectedError", "NotInjectedError",
                    "AlreadyActiveError", "NotActiveError"}

\* An exception raised by the SpiceEditor behind NetList.net: a reference
\* that is None or names no component, or an insertion under a reference
\* that is already taken.
StoreError == "StoreError"

----------------------------------------------------------------------------
\* The netlist store behind NetList.net (SpiceEditor), seen through the
\* calls the library makes on it.  A component is its ordered port list and
\* its value (the model name, for a transistor).  A lookup, removal or value
\* update under a reference that is None or names no component raises; so
\* does an insertion under a reference the store already holds.

Component(ports, value) == [ports |-> ports, value |-> value]

\* raise e
Raise(c, e) == IF c.err = "ok" THEN [c EXCEPT !.err = e] ELSE c

\* net.get_components(): the references in the store
get_components(c) == DOMAIN c.store

\* net.add_component(component): the store is keyed by unique reference and
\* rejects a second component under a reference it already holds.
add_component(c, reference, ports, value) ==
    IF c.err # "ok" THEN c
    ELSE IF reference \in DOMAIN c.store THEN Raise(c, StoreError)
    ELSE [c EXCEPT !.store = (reference :> Component(ports, value)) @@ c.store,
                   !.muts = @ + 1]

\* net.remove_component(reference)
net_remove_component(c, reference) ==
    IF c.err # "ok" THEN c
    ELSE IF reference \notin DOMAIN c.store THEN Raise(c, StoreError)
    ELSE [c EXCEPT !.store = [r \in (DOMAIN c.store) \ {reference} |-> c.store[r]],
                   !.muts = @ + 1]

\* net.set_component_value(reference, value)
net_set_component_value(c, reference, value) ==
    IF c.err # "ok" THEN c
    ELSE IF reference \notin DOMAIN c.store THEN Raise(c, StoreError)
    ELSE [c EXCEPT !.store[reference].value = value, !.muts = @ + 1]

\* net.get_component_nodes(component): the ordered port list, in ret
get_component_nodes(c, reference) ==
    IF c.err # "ok" THEN c
    ELSE IF reference \notin DOMAIN c.store THEN Raise([c EXCEPT !.reads = @ + 1], StoreError)
    ELSE [c EXCEPT !.ret = c.store[reference].ports, !.reads = @ + 1]

\* net.get_component_value(component): the value, in ret
get_component_value(c, reference) ==
    IF c.err # "ok" THEN c
    ELSE IF reference \notin DOMAIN c.store THEN Raise([c EXCEPT !.reads = @ + 1], StoreError)
    ELSE [c EXCEPT !.ret = c.store[reference].value, !.reads = @ + 1]

\* A .meas directive: `head` is the text up to the end of the result name,
\* the rest of the line is kept in fields.
Directive(name, node, threshold, edge) ==
    [head |-> ".meas TRAN " \o name, node |-> node,
     threshold |-> threshold, edge |-> edge]

\* net.add_instructions(...)
add_instructions(c, ds) ==
    IF c.err # "ok" THEN c
    ELSE [c EXCEPT !.directives = @ \cup ds, !.muts = @ + 1]

\* net.remove_Xinstruction(pattern) for a pattern "<prefix>.*": every
\* directive whose text starts with the prefix is removed.
remove_Xinstruction(c, prefix) ==
    IF c.err # "ok" THEN c
    ELSE [c EXCEPT !.directives = {d \in @ : ~StartsWith(d.head, prefix)},
                   !.muts = @ + 1]

----------------------------------------------------------------------------
\* NetList (base.py)

\* the while loop of get_next_*_descriptor_index
RECURSIVE ScanFree(_, _, _)
ScanFree(prefix, refs, i) ==
    IF (prefix \o ToString(i)) \in refs THEN ScanFree(prefix, refs, i + 1) ELSE i

\* Mutant of get_next_fet_descriptor_index: every call scans the store.
get_next_fet_descriptor_index_Rescans(c) ==
    IF c.err # "ok" THEN c
    ELSE LET i == ScanFree("M", get_components(c), 1)
         IN [c EXCEPT !.fet_descriptor_index = i, !.ret = i]

\* Mutant of get_next_fet_descriptor_index: the scan starts at index 0.
get_next_fet_descriptor_index_ScanFromZero(c) ==
    IF c.err # "ok" THEN c
    ELSE LET i == IF c.fet_descriptor_index = -1
                  THEN ScanFree("M", get_components(c), 0)
                  ELSE c.fet_descriptor_index + 1
         IN [c EXCEPT !.fet_descriptor_index = i, !.ret = i]

get_next_fet_descriptor_index(c) ==
    IF c.err # "ok" THEN c
    ELSE LET i == IF c.fet_descriptor_index = -1
                  THEN ScanFree("M", get_components(c), 1)
                  ELSE c.fet_descriptor_index + 1
         IN [c EXCEPT !.fet_descriptor_index = i, !.ret = i]

get_next_source_descriptor_index(c) ==
    IF c.err # "ok" THEN c
    ELSE LET i == IF c.source_descriptor_index = -1
                  THEN ScanFree("V", get_components(c), 1)
                  ELSE c.source_descriptor_index + 1
         IN [c EXCEPT !.source_descriptor_index = i, !.ret = i]

get_next_resistor_descriptor_index(c) ==
    IF c.err # "ok" THEN c
    ELSE LET i == IF c.resistor_descriptor_index = -1
                  THEN ScanFree("R", get_components(c), 1)
                  ELSE c.resistor_descriptor_index + 1
         IN [c EXCEPT !.resistor_descriptor_index = i, !.ret = i]

\* Bookkeeping of an allocation: the reference handed out, and whether the
\* store held it at that moment.
Allocated(c, reference) ==
    IF c.err # "ok" THEN c
    ELSE [c EXCEPT !.allocs = Append(@, reference),
                   !.taken = @ \/ (reference \in DOMAIN c.store)]

\* the return statement of insert_*
Return(c, v) == IF c.err # "ok" THEN c ELSE [c EXCEPT !.ret = v]

insert_fet(c, drain_node, gate_node, source_node, model) ==
    LET c1 == get_next_fet_descriptor_index(c)
        reference == "M" \o ToString(c1.ret)
        c2 == add_component(Allocated(c1, reference), reference,
                            <<drain_node, gate_node, source_node, source_node>>, model)
    IN IF c.err # "ok" THEN c ELSE Return(c2, reference)

\* The new component carries the reference and the value of the old one and
\* the four ports given; it replaces the old one.
update_fet_ports(c, reference, drain_node, gate_node, source_node, bulk_node) ==
    IF c.err # "ok" THEN c
    ELSE IF ~StartsWith(reference, "M") THEN Raise(c, "ValueError")
    ELSE IF reference \notin DOMAIN c.store THEN Raise(c, StoreError)
    ELSE LET old_fet == c.store[reference]
         IN add_component(net_remove_component(c, reference), reference,
                          <<drain_node, gate_node, source_node, bulk_node>>,
                          old_fet.value)

insert_source(c, plus_node, minus_node, value) ==
    LET c1 == get_next_source_descriptor_index(c)
        reference == "V" \o ToString(c1.ret)
        c2 == add_component(Allocated(c1, reference), reference,
                            <<plus_node, minus_node>>, value)
    IN IF c.err # "ok" THEN c ELSE Return(c2, reference)

insert_resistor(c, node1, node2, value) ==
    LET c1 == get_next_resistor_descriptor_index(c)
        reference == "R" \o ToString(c1.ret)
        c2 == add_component(Allocated(c1, reference), reference,
                            <<node1, node2>>, value)
    IN IF c.err # "ok" THEN c ELSE Return(c2, reference)

remove_component(c, reference) == net_remove_component(c, reference)

set_component_value(c, reference, value) == net_set_component_value(c, reference, value)

----------------------------------------------------------------------------
\* Objects.  One record shape holds the attributes of every class; an
\* attribute a class does not have stays None.  A port list that is not set
\* is the empty tuple, and so is an expectation that is None.

Blank ==
    [cls |-> None, component |-> None, state |-> STATE_NOT_INJECTED,
     fault_free_ports |-> <<>>, fault_free_value |-> None,
     open_resistor |-> None, drain_coupling_resistor |-> None,
     source_coupling_resistor |-> None, short_resistor |-> None,
     node |-> None, meas_node |-> None, pull_up |-> FALSE,
     low_threshold |-> 0, high_threshold |-> 0,
     low_result_variable |-> None, high_result_variable |-> None,
     pmos |-> None, nmos |-> None, fet |-> None, source |-> None,
     expectation |-> <<>>]

\* self.<attribute> = v
SetAttr(c, o) == IF c.err # "ok" THEN c ELSE [c EXCEPT !.self = o]

----------------------------------------------------------------------------
\* Fault (faults.py)

Fault_init(c, component) ==
    SetAttr(c, [c.self EXCEPT !.component = component, !.state = STATE_NOT_INJECTED])

\* Mutant of Fault_inject: the state guard is missing.
Fault_inject_NoGuard(c) ==
    IF c.err # "ok" THEN c
    ELSE [c EXCEPT !.self.state = STATE_INJECTED]

Fault_inject(c) ==
    IF c.err # "ok" THEN c
    ELSE IF c.self.state # STATE_NOT_INJECTED THEN Raise(c, "AlreadyInjectedError")
    ELSE [c EXCEPT !.self.state = STATE_INJECTED]

Fault_eject(c) ==
    IF c.err # "ok" THEN c
    ELSE IF c.self.state = STATE_NOT_INJECTED THEN Raise(c, "NotInjectedError")
    ELSE [c EXCEPT !.self.state = STATE_NOT_INJECTED]

\* Mutant of PortFault_init: the snapshot is read before the prefix check.
PortFault_init_SnapshotFirst(c, component, prefix) ==
    LET c1 == Fault_init(c, component)
        c2 == get_component_nodes(c1, component)
        c3 == IF StartsWith(component, prefix) THEN c2
              ELSE Raise(c2, "FaultDoesNotSupportComponent")
    IN IF c3.err # "ok" THEN c3
       ELSE [c3 EXCEPT !.self.fault_free_ports = c2.ret]

\* The constructor shared, line for line, by the six transistor faults and
\* CapacitorShort: the prefix check, then the attributes set to None, then
\* the snapshot of the ports.
PortFault_init(c, component, prefix) ==
    LET c1 == Fault_init(c, component)
        c2 == IF StartsWith(component, prefix) THEN c1
              ELSE Raise(c1, "FaultDoesNotSupportComponent")
        c3 == get_component_nodes(c2, component)
    IN IF c3.err # "ok" THEN c3
       ELSE [c3 EXCEPT !.self.fault_free_ports = c3.ret]

DrainOpenFault_init(c, component) == PortFault_init(c, component, "M")

DrainOpenFault_inject(c) ==
    LET c1 == Fault_inject(c)
        ffp == c.self.fault_free_ports
        new_ports == [ffp EXCEPT ![1] = ffp[1] \o "_" \o c.self.component \o "_open"]
        c2 == update_fet_ports(c1, c.self.component, new_ports[1], new_ports[2],
                               new_ports[3], new_ports[4])
        c3 == insert_resistor(c2, new_ports[1], ffp[1], OPEN_RESISTANCE)
    IN IF c3.err # "ok" THEN c3 ELSE [c3 EXCEPT !.self.open_resistor = c3.ret]

\* Mutant of DrainOpenFault_eject: the transistor keeps the synthetic drain.
DrainOpenFault_eject_KeepsPorts(c) ==
    Fault_eject(remove_component(c, c.self.open_resistor))

DrainOpenFault_eject(c) ==
    LET ffp == c.self.fault_free_ports
        c1 == update_fet_ports(c, c.self.component, ffp[1], ffp[2], ffp[3], ffp[4])
        c2 == remove_component(c1, c.self.open_resistor)
    IN Fault_eject(c2)

SourceOpenFault_init(c, component) == PortFault_init(c, component, "M")

\* Mutant of SourceOpenFault_inject: the bulk keeps its own node.
SourceOpenFault_inject_BulkKept(c) ==
    LET c1 == Fault_inject(c)
        ffp == c.self.fault_free_ports
        synthetic == ffp[3] \o "_" \o c.self.component \o "_open"
        new_ports == [ffp EXCEPT ![3] = synthetic]
        c2 == update_fet_ports(c1, c.self.component, new_ports[1], new_ports[2],
                               new_ports[3], new_ports[4])
        c3 == insert_resistor(c2, new_ports[3], ffp[3], OPEN_RESISTANCE)
    IN IF c3.err # "ok" THEN c3 ELSE [c3 EXCEPT !.self.open_resistor = c3.ret]

SourceOpenFault_inject(c) ==
    LET c1 == Fault_inject(c)
        ffp == c.self.fault_free_ports
        synthetic == ffp[3] \o "_" \o c.self.component \o "_open"
        new_ports == [ffp EXCEPT ![3] = synthetic, ![4] = synthetic]
        c2 == update_fet_ports(c1, c.self.component, new_ports[1], new_ports[2],
                               new_ports[3], new_ports[4])
        c3 == insert_resistor(c2, new_ports[3], ffp[3], OPEN_RESISTANCE)
    IN IF c3.err # "ok" THEN c3 ELSE [c3 EXCEPT !.self.open_resistor = c3.ret]

\* Mutant of SourceOpenFault_eject: the ports are read from the store again
\* and only the source and the bulk are put back.
SourceOpenFault_eject_RereadsPorts(c) ==
    LET ffp == c.self.fault_free_ports
        c0 == get_component_nodes(c, c.self.component)
        c1 == update_fet_ports(c0, c.self.component, c0.ret[1], c0.ret[2], ffp[3], ffp[4])
        c2 == remove_component(c1, c.self.open_resistor)
    IN Fault_eject(c2)

SourceOpenFault_eject(c) ==
    LET ffp == c.self.fault_free_ports
        c1 == update_fet_ports(c, c.self.component, ffp[1], ffp[2], ffp[3], ffp[4])
        c2 == remove_component(c1, c.self.open_resistor)
    IN Fault_eject(c2)

GateOpenFault_init(c, component) == PortFault_init(c, component, "M")

\* Mutant of GateOpenFault_inject: the source coupling resistor has the gate
\* resistance.
GateOpenFault_inject_CouplingValue(c) ==
    LET c1 == Fault_inject(c)
        ffp == c.self.fault_free_ports
        new_ports == [ffp EXCEPT ![2] = ffp[2] \o "_" \o c.self.component \o "_open"]
        couple_port == new_ports[2] \o "_couple"
        c2 == update_fet_ports(c1, c.self.component, new_ports[1], new_ports[2],
                               new_ports[3], new_ports[4])
        c3 == insert_resistor(c2, new_ports[2], couple_port, GATE_RESISTANCE)
        c4 == IF c3.err # "ok" THEN c3 ELSE [c3 EXCEPT !.self.open_resistor = c3.ret]
        c5 == insert_resistor(c4, new_ports[1], couple_port, COUPLING_RESISTANCE)
        c6 == IF c5.err # "ok" THEN c5
              ELSE [c5 EXCEPT !.self.drain_coupling_resistor = c5.ret]
        c7 == insert_resistor(c6, new_ports[3], couple_port, GATE_RESISTANCE)
    IN IF c7.err # "ok" THEN c7
       ELSE [c7 EXCEPT !.self.source_coupling_resistor = c7.ret]

GateOpenFault_inject(c) ==
    LET c1 == Fault_inject(c)
        ffp == c.self.fault_free_ports
        new_ports == [ffp EXCEPT ![2] = ffp[2] \o "_" \o c.self.component \o "_open"]
        couple_port == new_ports[2] \o "_couple"
        c2 == update_fet_ports(c1, c.self.component, new_ports[1], new_ports[2],
                               new_ports[3], new_ports[4])
        c3 == insert_resistor(c2, new_ports[2], couple_port, GATE_RESISTANCE)
        c4 == IF c3.err # "ok" THEN c3 ELSE [c3 EXCEPT !.self.open_resistor = c3.ret]
        c5 == insert_resistor(c4, new_ports[1], couple_port, COUPLING_RESISTANCE)
        c6 == IF c5.err # "ok" THEN c5
              ELSE [c5 EXCEPT !.self.drain_coupling_resistor = c5.ret]
        c7 == insert_resistor(c6, new_ports[3], couple_port, COUPLING_RESISTANCE)
    IN IF c7.err # "ok" THEN c7
       ELSE [c7 EXCEPT !.self.source_coupling_resistor = c7.ret]

GateOpenFault_eject(c) ==
    LET ffp == c.self.fault_free_ports
        c1 == update_fet_ports(c, c.self.component, ffp[1], ffp[2], ffp[3], ffp[4])
        c2 == remove_component(c1, c.self.open_resistor)
        c3 == remove_component(c2, c.self.drain_coupling_resistor)
        c4 == remove_component(c3, c.self.source_coupling_resistor)
    IN Fault_eject(c4)

\* inject of the four short faults: one resistor between two snapshot ports
Short_inject(c, i, j) ==
    LET c1 == Fault_inject(c)
        ffp == c.self.fault_free_ports
        c2 == insert_resistor(c1, ffp[i], ffp[j], SHORT_RESISTANCE)
    IN IF c2.err # "ok" THEN c2 ELSE [c2 EXCEPT !.self.short_resistor = c2.ret]

\* Mutant of Short_eject: the target is removed with the resistor.
Short_eject_RemovesTarget(c) ==
    Fault_eject(remove_component(remove_component(c, c.self.short_resistor),
                                 c.self.component))

\* eject of the four short faults
Short_eject(c) == Fault_eject(remove_component(c, c.self.short_resistor))

GateDrainShort_init(c, component) == PortFault_init(c, component, "M")
GateDrainShort_inject(c) == Short_inject(c, 2, 1)
GateDrainShort_eject(c) == Short_eject(c)

GateSourceShort_init(c, component) == PortFault_init(c, component, "M")
GateSourceShort_inject(c) == Short_inject(c, 2, 3)
GateSourceShort_eject(c) == Short_eject(c)

DrainSourceShort_init(c, component) == PortFault_init(c, component, "M")
DrainSourceShort_inject(c) == Short_inject(c, 1, 3)
DrainSourceShort_eject(c) == Short_eject(c)

CapacitorShort_init(c, component) == PortFault_init(c, component, "C")
CapacitorShort_inject(c) == Short_inject(c, 1, 2)
CapacitorShort_eject(c) == Short_eject(c)

\* The constructor shared by ResistorOpen and ResistorShort.
ValueFault_init(c, component) ==
    LET c1 == Fault_init(c, component)
        c2 == IF StartsWith(component, "R") THEN c1
              ELSE Raise(c1, "FaultDoesNotSupportComponent")
        c3 == get_component_value(c2, component)
    IN IF c3.err # "ok" THEN c3
       ELSE [c3 EXCEPT !.self.fault_free_value = c3.ret]

ResistorOpen_init(c, component) == ValueFault_init(c, component)

ResistorOpen_inject(c) ==
    net_set_component_value(Fault_inject(c), c.self.component, OPEN_RESISTANCE)

\* Mutant of ResistorOpen_eject: the value written at inject is left in.
ResistorOpen_eject_KeepsValue(c) == Fault_eject(c)

ResistorOpen_eject(c) ==
    Fault_eject(net_set_component_value(c, c.self.component, c.self.fault_free_value))

ResistorShort_init(c, component) == ValueFault_init(c, component)

ResistorShort_inject(c) ==
    net_set_component_value(Fault_inject(c), c.self.component, SHORT_RESISTANCE)

ResistorShort_eject(c) ==
    Fault_eject(net_set_component_value(c, c.self.component, c.self.fault_free_value))

----------------------------------------------------------------------------
\* TestUtility (test_utilities.py)

TestUtility_init(c) == SetAttr(c, [c.self EXCEPT !.state = STATE_NOT_INJECTED])

TestUtility_inject(c) ==
    IF c.err # "ok" THEN c
    ELSE IF c.self.state # STATE_NOT_INJECTED THEN Raise(c, "AlreadyInjectedError")
    ELSE [c EXCEPT !.self.state = STATE_INJECTED]

TestUtility_activate(c) ==
    IF c.err # "ok" THEN c
    ELSE IF c.self.state = STATE_NOT_INJECTED THEN Raise(c, "NotInjectedError")
    ELSE IF c.self.state = STATE_ACTIVE THEN Raise(c, "AlreadyActiveError")
    ELSE [c EXCEPT !.self.state = STATE_ACTIVE]

\* Mutant of TestUtility_deactivate: the NotActive guard is missing.
TestUtility_deactivate_NoActiveGuard(c) ==
    IF c.err # "ok" THEN c
    ELSE IF c.self.state = STATE_NOT_INJECTED THEN Raise(c, "NotInjectedError")
    ELSE [c EXCEPT !.self.state = STATE_INJECTED]

TestUtility_deactivate(c) ==
    IF c.err # "ok" THEN c
    ELSE IF c.self.state = STATE_NOT_INJECTED THEN Raise(c, "NotInjectedError")
    ELSE IF c.self.state = STATE_INJECTED THEN Raise(c, "NotActiveError")
    ELSE [c EXCEPT !.self.state = STATE_INJECTED]

\* Observer: the lifecycle is TestUtility's; both observation methods raise.

Observer_init(c) == TestUtility_init(c)

Observer_observe_expected(c, log, raw_op) == Raise(c, "NotImplementedError")

Observer_observe(c, log, raw_op) == Raise(c, "NotImplementedError")

\* MeasureObserver

MeasureObserver_init(c, observer_node, low_threshold, high_threshold) ==
    LET c1 == Observer_init(c)
    IN SetAttr(c1, [c1.self EXCEPT
           !.meas_node = observer_node,
           !.low_threshold = low_threshold,
           !.high_threshold = high_threshold,
           !.low_result_variable = observer_node \o RESULT_NAME_POSTFIX \o "_LOW",
           !.high_result_variable = observer_node \o RESULT_NAME_POSTFIX \o "_HIGH",
           !.expectation = <<>>])

\* the four .meas directives of MeasureObserver.activate
MeasDirectives(o) ==
    {Directive(o.low_result_variable \o "_FALL", o.meas_node, o.low_threshold, "FALL"),
     Directive(o.low_result_variable \o "_RISE", o.meas_node, o.low_threshold, "RISE"),
     Directive(o.high_result_variable \o "_FALL", o.meas_node, o.high_threshold, "FALL"),
     Directive(o.high_result_variable \o "_RISE", o.meas_node, o.high_threshold, "RISE")}

MeasureObserver_activate(c) ==
    LET c1 == TestUtility_activate(c)
    IN add_instructions(c1, MeasDirectives(c.self))

MeasureObserver_deactivate(c) ==
    LET c1 == TestUtility_deactivate(c)
    IN remove_Xinstruction(c1, ".meas TRAN " \o c.self.meas_node \o RESULT_NAME_POSTFIX)

\* The results of a simulation, as MeasureObserver reads them.  An argument
\* that is None is the empty tuple, an object is the tuple of its content.
\* The log maps a measurement name, in lower case, to the list of its
\* values; the operating-point file maps a trace name to its data.  A log
\* that is a LTSpiceLogReader carries the name of its class, a log that is a
\* plain mapping (a dict) does not.
NoneObject == <<>>
Object(content) == <<content>>
LogReader(dataset) == <<dataset, "LTSpiceLogReader">>

\* log[variable]: for a name the log does not hold, LTSpiceLogReader raises
\* IndexError and a dict raises KeyError; None is not subscriptable.
log_getitem(c, log, key) ==
    IF c.err # "ok" THEN c
    ELSE IF Len(log) = 0 THEN Raise(c, "TypeError")
    ELSE IF key \notin DOMAIN log[1]
    THEN Raise(c, IF Len(log) = 2 THEN "IndexError" ELSE "KeyError")
    ELSE [c EXCEPT !.ret = log[1][key]]

MeasureObserver__get_measurement(c, log, variable, default) ==
    LET c1 == log_getitem(c, log, Lower(variable))
    IN IF c.err # "ok" THEN c
       ELSE IF c1.err = "IndexError" THEN [c1 EXCEPT !.err = "ok", !.ret = default]
       ELSE IF c1.err # "ok" THEN c1
       ELSE IF Len(c1.ret) = 0 THEN Return(c1, default)
       ELSE Return(c1, c1.ret[1])

\* raw_op.get_trace(name).data[0]
initial_value(raw_op, name) == raw_op[1][name][1]

\* Mutant of MeasureObserver__observe: the high pair is looked at first.
MeasureObserver__observe_HighFirst(c, log, raw_op) ==
    LET o == c.self
        c1 == MeasureObserver__get_measurement(c, log, o.low_result_variable \o "_FALL_at", NOT_TRIGGERED)
        c2 == MeasureObserver__get_measurement(c, log, o.low_result_variable \o "_RISE_at", NOT_TRIGGERED)
        c3 == MeasureObserver__get_measurement(c, log, o.high_result_variable \o "_FALL_at", NOT_TRIGGERED)
        c4 == MeasureObserver__get_measurement(c, log, o.high_result_variable \o "_RISE_at", NOT_TRIGGERED)
        low_fall == c1.ret
        low_rise == c2.ret
        high_fall == c3.ret
        high_rise == c4.ret
    IN IF c1.err # "ok" THEN c1
       ELSE IF c2.err # "ok" THEN c2
       ELSE IF c3.err # "ok" THEN c3
       ELSE IF c4.err # "ok" THEN c4
       ELSE IF high_rise > high_fall
       THEN Return(c, <<HIGH_VALUE, high_rise - TRIGGER_TIME>>)
       ELSE IF low_fall > low_rise
       THEN Return(c, <<LOW_VALUE, low_fall - TRIGGER_TIME>>)
       ELSE IF Len(raw_op) # 0
       THEN LET v == initial_value(raw_op, "V(" \o o.meas_node \o ")")
            IN IF v < o.low_threshold THEN Return(c, <<LOW_VALUE, NOT_TRIGGERED>>)
               ELSE IF v > o.high_threshold THEN Return(c, <<HIGH_VALUE, NOT_TRIGGERED>>)
               ELSE Return(c, <<UNCERTAIN_VALUE, NOT_TRIGGERED>>)
       ELSE Return(c, <<UNCERTAIN_VALUE, NOT_TRIGGERED>>)

\* A measurement is a read: it leaves the netlist and the observer as they
\* are, so each of the four starts from the context of the call; the first
\* one that raises ends the call.
MeasureObserver__observe(c, log, raw_op) ==
    LET o == c.self
        c1 == MeasureObserver__get_measurement(c, log, o.low_result_variable \o "_FALL_at", NOT_TRIGGERED)
        c2 == MeasureObserver__get_measurement(c, log, o.low_result_variable \o "_RISE_at", NOT_TRIGGERED)
        c3 == MeasureObserver__get_measurement(c, log, o.high_result_variable \o "_FALL_at", NOT_TRIGGERED)
        c4 == MeasureObserver__get_measurement(c, log, o.high_result_variable \o "_RISE_at", NOT_TRIGGERED)
        low_fall == c1.ret
        low_rise == c2.ret
        high_fall == c3.ret
        high_rise == c4.ret
    IN IF c1.err # "ok" THEN c1
       ELSE IF c2.err # "ok" THEN c2
       ELSE IF c3.err # "ok" THEN c3
       ELSE IF c4.err # "ok" THEN c4
       ELSE IF low_fall > low_rise
       THEN Return(c, <<LOW_VALUE, low_fall - TRIGGER_TIME>>)
       ELSE IF high_rise > high_fall
       THEN Return(c, <<HIGH_VALUE, high_rise - TRIGGER_TIME>>)
       ELSE IF Len(raw_op) # 0
       THEN LET v == initial_value(raw_op, "V(" \o o.meas_node \o ")")
            IN IF v < o.low_threshold THEN Return(c, <<LOW_VALUE, NOT_TRIGGERED>>)
               ELSE IF v > o.high_threshold THEN Return(c, <<HIGH_VALUE, NOT_TRIGGERED>>)
               ELSE Return(c, <<UNCERTAIN_VALUE, NOT_TRIGGERED>>)
       ELSE Return(c, <<UNCERTAIN_VALUE, NOT_TRIGGERED>>)

\* Mutant of MeasureObserver_observe_expected: an UNCERTAIN classification
\* is raised and not stored.
MeasureObserver_observe_expected_RaisesUncertain(c, log, raw_op) ==
    LET c1 == MeasureObserver__observe(c, log, raw_op)
    IN IF c1.err # "ok" THEN c1
       ELSE IF c1.ret[1] = UNCERTAIN_VALUE THEN Raise(c1, "ValueError")
       ELSE [c1 EXCEPT !.self.expectation = c1.ret, !.ret = None]

\* The expectation is stored; the method returns nothing.
MeasureObserver_observe_expected(c, log, raw_op) ==
    LET c1 == MeasureObserver__observe(c, log, raw_op)
    IN IF c1.err # "ok" THEN c1
       ELSE [c1 EXCEPT !.self.expectation = c1.ret, !.ret = None]

\* Mutant of MeasureObserver_observe: a missing expectation is captured from
\* the first observation.
MeasureObserver_observe_CapturesWhenUnset(c, log, raw_op) ==
    LET c0 == IF c.err = "ok" /\ c.self.expectation = <<>>
              THEN MeasureObserver_observe_expected(c, log, raw_op)
              ELSE c
        c1 == MeasureObserver__observe(c0, log, raw_op)
    IN IF c1.err # "ok" THEN c1
       ELSE Return(c1, <<c1.ret[1] = c0.self.expectation[1],
                         <<c1.ret[2] - c0.self.expectation[2]>> >>)

\* Mutant of MeasureObserver_observe: the observation becomes the expectation.
MeasureObserver_observe_MovesExpectation(c, log, raw_op) ==
    IF c.err # "ok" THEN c
    ELSE IF c.self.expectation = <<>> THEN Raise(c, "ObserverExpectationUnknown")
    ELSE LET c1 == MeasureObserver__observe(c, log, raw_op)
         IN IF c1.err # "ok" THEN c1
            ELSE [c1 EXCEPT !.self.expectation = c1.ret,
                            !.ret = <<c1.ret[1] = c.self.expectation[1],
                                      <<c1.ret[2] - c.self.expectation[2]>> >>]

MeasureObserver_observe(c, log, raw_op) ==
    IF c.err # "ok" THEN c
    ELSE IF c.self.expectation = <<>> THEN Raise(c, "ObserverExpectationUnknown")
    ELSE LET observation == MeasureObserver__observe(c, log, raw_op)
         IN IF observation.err # "ok" THEN observation
            ELSE Return(observation,
                        <<observation.ret[1] = c.self.expectation[1],
                          <<observation.ret[2] - c.self.expectation[2]>> >>)

\* InjectionPoint

InjectionPoint_init(c, node, pull_up) ==
    LET c1 == TestUtility_init(c)
    IN SetAttr(c1, [c1.self EXCEPT !.node = node, !.pull_up = pull_up,
                                   !.fet = None, !.source = None])

InjectionPoint_inject(c) ==
    LET c1 == TestUtility_inject(c)
        o == c.self
        gate == o.node \o (IF o.pull_up THEN PMOS_GATE_NODE_POSTFIX
                           ELSE NMOS_GATE_NODE_POSTFIX)
        c2 == insert_source(c1, gate, ground_node,
                            IF o.pull_up THEN VoltText(vdd) ELSE VoltText(vss))
        c3 == IF c2.err # "ok" THEN c2 ELSE [c2 EXCEPT !.self.source = c2.ret]
        c4 == insert_fet(c3, o.node, gate,
                         IF o.pull_up THEN supply_node ELSE ground_node,
                         IF o.pull_up THEN PMOS_MODEL ELSE NMOS_MODEL)
    IN IF c4.err # "ok" THEN c4 ELSE [c4 EXCEPT !.self.fet = c4.ret]

Pulse(from, to) ==
    "PULSE(" \o VoltText(from) \o " " \o VoltText(to) \o " " \o INJECTION_TIMING \o ")"

InjectionPoint_activate(c) ==
    LET c1 == TestUtility_activate(c)
    IN set_component_value(c1, c.self.source,
                           IF c.self.pull_up THEN Pulse(vdd, vss) ELSE Pulse(vss, vdd))

InjectionPoint_deactivate(c) ==
    LET c1 == TestUtility_deactivate(c)
    IN set_component_value(c1, c.self.source,
                           IF c.self.pull_up THEN VoltText(vdd) ELSE VoltText(vss))

\* self.deactivate(), resolved on the class of self
self_deactivate(c) ==
    IF c.self.cls \in {"MeasureObserver", "InverterObserver"}
    THEN MeasureObserver_deactivate(c)
    ELSE IF c.self.cls = "InjectionPoint" THEN InjectionPoint_deactivate(c)
    ELSE TestUtility_deactivate(c)

TestUtility_eject(c) ==
    IF c.err # "ok" THEN c
    ELSE IF c.self.state = STATE_NOT_INJECTED THEN Raise(c, "NotInjectedError")
    ELSE LET c1 == IF c.self.state = STATE_ACTIVE THEN self_deactivate(c) ELSE c
         IN IF c1.err # "ok" THEN c1
            ELSE [c1 EXCEPT !.self.state = STATE_NOT_INJECTED]

InjectionPoint_eject(c) ==
    LET c1 == remove_component(c, c.self.fet)
        c2 == remove_component(c1, c.self.source)
    IN TestUtility_eject(c2)

\* InverterObserver

InverterObserver_init(c, observer_node) ==
    LET c1 == MeasureObserver_init(c, observer_node \o NODE_POSTFIX,
                                   vss + LOGIC_MARGIN, FloatSub(vdd, LOGIC_MARGIN))
    IN SetAttr(c1, [c1.self EXCEPT !.node = observer_node,
                                   !.pmos = None, !.nmos = None])

InverterObserver_inject(c) ==
    LET c1 == TestUtility_inject(c)
        o == c.self
        c2 == insert_fet(c1, o.node \o NODE_POSTFIX, o.node, supply_node, PMOS_MODEL)
        c3 == IF c2.err # "ok" THEN c2 ELSE [c2 EXCEPT !.self.pmos = c2.ret]
        c4 == insert_fet(c3, o.node \o NODE_POSTFIX, o.node, ground_node, NMOS_MODEL)
    IN IF c4.err # "ok" THEN c4 ELSE [c4 EXCEPT !.self.nmos = c4.ret]

InverterObserver_eject(c) ==
    LET c1 == remove_component(c, c.self.pmos)
        c2 == remove_component(c1, c.self.nmos)
    IN TestUtility_eject(c2)

----------------------------------------------------------------------------
\* Factory functions (faults.py).  Each constructor runs on a new object;
\* the list of the objects built is returned in ret.

NewObject(c, cls) == IF c.err # "ok" THEN c ELSE [c EXCEPT !.self = [Blank EXCEPT !.cls = cls]]

fet_fault_factory(c, component) ==
    LET f1 == DrainOpenFault_init(NewObject(c, "DrainOpenFault"), component)
        f2 == SourceOpenFault_init(NewObject(f1, "SourceOpenFault"), component)
        f3 == GateOpenFault_init(NewObject(f2, "GateOpenFault"), component)
        f4 == GateDrainShort_init(NewObject(f3, "GateDrainShort"), component)
        f5 == GateSourceShort_init(NewObject(f4, "GateSourceShort"), component)
        f6 == DrainSourceShort_init(NewObject(f5, "DrainSourceShort"), component)
    IN Return(f6, <<f1.self, f2.self, f3.self, f4.self, f5.self, f6.self>>)

resistor_fault_factory(c, component) ==
    LET f1 == ResistorOpen_init(NewObject(c, "ResistorOpen"), component)
        f2 == ResistorShort_init(NewObject(f1, "ResistorShort"), component)
    IN Return(f2, <<f1.self, f2.self>>)

capacitor_fault_factory(c, component) ==
    LET f1 == CapacitorShort_init(NewObject(c, "CapacitorShort"), component)
    IN Return(f1, <<f1.self>>)

----------------------------------------------------------------------------
\* The test script: the objects it holds and the calls it makes.

\* The variables a test script can hold an entity in.
Entities == {"e1", "e2"}

\* The component references a test script names when it constructs a fault.
Components == {"M1", "M2", "R1", "R2", "C1"}

\* The nodes a test script observes or perturbs.
ObservedNodes == {"out"}
MeasuredNodes == {"out", "out" \o NODE_POSTFIX}

\* The thresholds (low, high) a test script gives a MeasureObserver.
Thresholds == {<<10 * Tenth, 23 * Tenth>>}

FaultClasses == {"Fault", "DrainOpenFault", "SourceOpenFault", "GateOpenFault",
                 "GateDrainShort", "GateSourceShort", "DrainSourceShort",
                 "ResistorOpen", "ResistorShort", "CapacitorShort"}
UtilityClasses == {"TestUtility", "Observer", "MeasureObserver", "InverterObserver",
                   "InjectionPoint"}

\* The reference prefix a fault class checks in its constructor ("" for none).
RequiredPrefix(cls) ==
    IF cls \in {"DrainOpenFault", "SourceOpenFault", "GateOpenFault",
                "GateDrainShort", "GateSourceShort", "DrainSourceShort"} THEN "M"
    ELSE IF cls \in {"ResistorOpen", "ResistorShort"} THEN "R"
    ELSE IF cls = "CapacitorShort" THEN "C"
    ELSE ""

EmptyStore == [r \in {} |-> Component(<<>>, None)]

\* The netlists a test script loads.
NetA == ("M1" :> Component(<<"out", "in", "0", "0">>, NMOS_MODEL))
     @@ ("R1" :> Component(<<"VDD", "out">>, "10k"))
     @@ ("C1" :> Component(<<"out", "0">>, "1p"))
NetB == ("M2" :> Component(<<"out", "in", "mid", "0">>, NMOS_MODEL))
     @@ ("R2" :> Component(<<"VDD", "out">>, "10k"))
     @@ ("C1" :> Component(<<"out", "0">>, "1p"))
Netlists == {NetA, NetB}

\* The context of a call on `self` in the current state.
Ctx(self) ==
    [store |-> store, directives |-> directives,
     fet_descriptor_index |-> fet_descriptor_index,
     source_descriptor_index |-> source_descriptor_index,
     resistor_descriptor_index |-> resistor_descriptor_index,
     self |-> self, err |-> "ok", ret |-> None,
     muts |-> 0, reads |-> 0, allocs |-> <<>>, taken |-> FALSE]

NoCall ==
    [op |-> None, e |-> None, cls |-> None, component |-> None, err |-> "ok",
     pre |-> STATE_NOT_INJECTED, muts |-> 0, reads |-> 0, taken |-> FALSE,
     same |-> TRUE]

NoTrail ==
    [ops |-> <<>>, e |-> None, store |-> EmptyStore, directives |-> {},
     clean |-> TRUE, excl |-> TRUE]

\* No observation call has been made since the last lifecycle call.
NoObs ==
    [op |-> None, e |-> None, times |-> <<>>, log |-> <<>>, raw_op |-> <<>>,
     err |-> "ok", ret |-> None, before |-> Blank]

\* The call sequences the round-trip properties are about.
TrailPrefixes ==
    {<<"inject", "eject">>, <<"inject", "activate">>,
     <<"inject", "activate", "deactivate">>,
     <<"inject", "activate", "deactivate", "eject">>}

\* The store holds for the fault's target what the fault captured at construction.
Clean(o) ==
    /\ o.fault_free_ports # <<>> =>
          o.component \in DOMAIN store /\ store[o.component].ports = o.fault_free_ports
    /\ o.fault_free_value # None =>
          o.component \in DOMAIN store /\ store[o.component].value = o.fault_free_value

\* No other fault bound to the same component is injected.
Exclusive(e) ==
    \A e2 \in Entities \ {e} :
        ent[e2].component # None /\ ent[e2].component = ent[e].component
            => ent[e2].state = STATE_NOT_INJECTED

NextTrail(e, op, c) ==
    IF c.err = "ok" /\ op = "inject"
    THEN [ops |-> <<"inject">>, e |-> e, store |-> store, directives |-> directives,
          clean |-> Clean(ent[e]), excl |-> Exclusive(e)]
    ELSE IF c.err = "ok" /\ trail.e = e /\ Append(trail.ops, op) \in TrailPrefixes
    THEN [trail EXCEPT !.ops = Append(@, op)]
    ELSE NoTrail

\* The call returns or raises: the context becomes the state.  A constructor
\* that raises leaves no object behind.
Commit(e, op, cls, component, c) ==
    /\ c.fet_descriptor_index <= MaxIndex
    /\ c.source_descriptor_index <= MaxIndex
    /\ c.resistor_descriptor_index <= MaxIndex
    /\ store' = c.store
    /\ directives' = c.directives
    /\ fet_descriptor_index' = c.fet_descriptor_index
    /\ source_descriptor_index' = c.source_descriptor_index
    /\ resistor_descriptor_index' = c.resistor_descriptor_index
    /\ ent' = IF op = "init" /\ c.err # "ok" THEN ent ELSE [ent EXCEPT ![e] = c.self]
    /\ last' = [op |-> op, e |-> e, cls |-> cls, component |-> component,
                err |-> c.err, pre |-> ent[e].state, muts |-> c.muts,
                reads |-> c.reads, taken |-> c.taken,
                same |-> /\ c.store = store
                         /\ c.directives = directives
                         /\ (op # "init" => c.self = ent[e])]
    /\ trail' = NextTrail(e, op, c)
    /\ obs' = NoObs
    /\ UNCHANGED <<alloc_log, store0>>

Init ==
    /\ store \in Netlists
    /\ directives = {}
    /\ fet_descriptor_index = -1
    /\ source_descriptor_index = -1
    /\ resistor_descriptor_index = -1
    /\ ent = [e \in Entities |-> Blank]
    /\ last = NoCall
    /\ trail = NoTrail
    /\ alloc_log = <<>>
    /\ store0 = store
    /\ obs = NoObs

\* Constructors: cls(...) assigned to a free variable e of the test script
NewFault(e, component) ==
    /\ ent[e].cls = None
    /\ Commit(e, "init", "Fault", component, Fault_init(NewObject(Ctx(Blank), "Fault"), component))
NewDrainOpenFault(e, component) ==
    /\ ent[e].cls = None
    /\ Commit(e, "init", "DrainOpenFault", component,
        DrainOpenFault_init(NewObject(Ctx(Blank), "DrainOpenFault"), component))
NewSourceOpenFault(e, component) ==
    /\ ent[e].cls = None
    /\ Commit(e, "init", "SourceOpenFault", component,
        SourceOpenFault_init(NewObject(Ctx(Blank), "SourceOpenFault"), component))
NewGateOpenFault(e, component) ==
    /\ ent[e].cls = None
    /\ Commit(e, "init", "GateOpenFault", component,
        GateOpenFault_init(NewObject(Ctx(Blank), "GateOpenFault"), component))
NewGateDrainShort(e, component) ==
    /\ ent[e].cls = None
    /\ Commit(e, "init", "GateDrainShort", component,
        GateDrainShort_init(NewObject(Ctx(Blank), "GateDrainShort"), component))
NewGateSourceShort(e, component) ==
    /\ ent[e].cls = None
    /\ Commit(e, "init", "GateSourceShort", component,
        GateSourceShort_init(NewObject(Ctx(Blank), "GateSourceShort"), component))
NewDrainSourceShort(e, component) ==
    /\ ent[e].cls = None
    /\ Commit(e, "init", "DrainSourceShort", component,
        DrainSourceShort_init(NewObject(Ctx(Blank), "DrainSourceShort"), component))
NewResistorOpen(e, component) ==
    /\ ent[e].cls = None
    /\ Commit(e, "init", "ResistorOpen", component,
        ResistorOpen_init(NewObject(Ctx(Blank), "ResistorOpen"), component))
NewResistorShort(e, component) ==
    /\ ent[e].cls = None
    /\ Commit(e, "init", "ResistorShort", component,
        ResistorShort_init(NewObject(Ctx(Blank), "ResistorShort"), component))
NewCapacitorShort(e, component) ==
    /\ ent[e].cls = None
    /\ Commit(e, "init", "CapacitorShort", component,
        CapacitorShort_init(NewObject(Ctx(Blank), "CapacitorShort"), component))
NewTestUtility(e) ==
    /\ ent[e].cls = None
    /\ Commit(e, "init", "TestUtility", None, TestUtility_init(NewObject(Ctx(Blank), "TestUtility")))
NewObserver(e) ==
    /\ ent[e].cls = None
    /\ Commit(e, "init", "Observer", None, Observer_init(NewObject(Ctx(Blank), "Observer")))
NewMeasureObserver(e, node, th) ==
    /\ ent[e].cls = None
    /\ Commit(e, "init", "MeasureObserver", None,
        MeasureObserver_init(NewObject(Ctx(Blank), "MeasureObserver"), node, th[1], th[2]))
NewInverterObserver(e, node) ==
    /\ ent[e].cls = None
    /\ Commit(e, "init", "InverterObserver", None,
        InverterObserver_init(NewObject(Ctx(Blank), "InverterObserver"), node))
NewInjectionPoint(e, node, pull_up) ==
    /\ ent[e].cls = None
    /\ Commit(e, "init", "InjectionPoint", None,
        InjectionPoint_init(NewObject(Ctx(Blank), "InjectionPoint"), node, pull_up))

\* The test script keeps the i-th fault of the list a factory returns.
Keep(c, i) == IF c.err # "ok" THEN c ELSE [c EXCEPT !.self = c.ret[i]]

CallFetFaultFactory(e, component, i) ==
    /\ ent[e].cls = None
    /\ Commit(e, "init", "fet_fault_factory", component,
        Keep(fet_fault_factory(Ctx(Blank), component), i))
CallResistorFaultFactory(e, component, i) ==
    /\ ent[e].cls = None
    /\ Commit(e, "init", "resistor_fault_factory", component,
        Keep(resistor_fault_factory(Ctx(Blank), component), i))
CallCapacitorFaultFactory(e, component) ==
    /\ ent[e].cls = None
    /\ Commit(e, "init", "capacitor_fault_factory", component,
        Keep(capacitor_fault_factory(Ctx(Blank), component), 1))

\* Lifecycle calls: e.op() on an object of the class that defines op
CallFaultInject(e) ==
    /\ ent[e].cls = "Fault"
    /\ Commit(e, "inject", "Fault", ent[e].component, Fault_inject(Ctx(ent[e])))
CallFaultEject(e) ==
    /\ ent[e].cls = "Fault"
    /\ Commit(e, "eject", "Fault", ent[e].component, Fault_eject(Ctx(ent[e])))
CallDrainOpenFaultInject(e) ==
    /\ ent[e].cls = "DrainOpenFault"
    /\ Commit(e, "inject", "DrainOpenFault", ent[e].component, DrainOpenFault_inject(Ctx(ent[e])))
CallDrainOpenFaultEject(e) ==
    /\ ent[e].cls = "DrainOpenFault"
    /\ Commit(e, "eject", "DrainOpenFault", ent[e].component, DrainOpenFault_eject(Ctx(ent[e])))
CallSourceOpenFaultInject(e) ==
    /\ ent[e].cls = "SourceOpenFault"
    /\ Commit(e, "inject", "SourceOpenFault", ent[e].component, SourceOpenFault_inject(Ctx(ent[e])))
CallSourceOpenFaultEject(e) ==
    /\ ent[e].cls = "SourceOpenFault"
    /\ Commit(e, "eject", "SourceOpenFault", ent[e].component, SourceOpenFault_eject(Ctx(ent[e])))
CallGateOpenFaultInject(e) ==
    /\ ent[e].cls = "GateOpenFault"
    /\ Commit(e, "inject", "GateOpenFault", ent[e].component, GateOpenFault_inject(Ctx(ent[e])))
CallGateOpenFaultEject(e) ==
    /\ ent[e].cls = "GateOpenFault"
    /\ Commit(e, "eject", "GateOpenFault", ent[e].component, GateOpenFault_eject(Ctx(ent[e])))
CallGateDrainShortInject(e) ==
    /\ ent[e].cls = "GateDrainShort"
    /\ Commit(e, "inject", "GateDrainShort", ent[e].component, GateDrainShort_inject(Ctx(ent[e])))
CallGateDrainShortEject(e) ==
    /\ ent[e].cls = "GateDrainShort"
    /\ Commit(e, "eject", "GateDrainShort", ent[e].component, GateDrainShort_eject(Ctx(ent[e])))
CallGateSourceShortInject(e) ==
    /\ ent[e].cls = "GateSourceShort"
    /\ Commit(e, "inject", "GateSourceShort", ent[e].component, GateSourceShort_inject(Ctx(ent[e])))
CallGateSourceShortEject(e) ==
    /\ ent[e].cls = "GateSourceShort"
    /\ Commit(e, "eject", "GateSourceShort", ent[e].component, GateSourceShort_eject(Ctx(ent[e])))
CallDrainSourceShortInject(e) ==
    /\ ent[e].cls = "DrainSourceShort"
    /\ Commit(e, "inject", "DrainSourceShort", ent[e].component, DrainSourceShort_inject(Ctx(ent[e])))
CallDrainSourceShortEject(e) ==
    /\ ent[e].cls = "DrainSourceShort"
    /\ Commit(e, "eject", "DrainSourceShort", ent[e].component, DrainSourceShort_eject(Ctx(ent[e])))
CallResistorOpenInject(e) ==
    /\ ent[e].cls = "ResistorOpen"
    /\ Commit(e, "inject", "ResistorOpen", ent[e].component, ResistorOpen_inject(Ctx(ent[e])))
CallResistorOpenEject(e) ==
    /\ ent[e].cls = "ResistorOpen"
    /\ Commit(e, "eject", "ResistorOpen", ent[e].component, ResistorOpen_eject(Ctx(ent[e])))
CallResistorShortInject(e) ==
    /\ ent[e].cls = "ResistorShort"
    /\ Commit(e, "inject", "ResistorShort", ent[e].component, ResistorShort_inject(Ctx(ent[e])))
CallResistorShortEject(e) ==
    /\ ent[e].cls = "ResistorShort"
    /\ Commit(e, "eject", "ResistorShort", ent[e].component, ResistorShort_eject(Ctx(ent[e])))
CallCapacitorShortInject(e) ==
    /\ ent[e].cls = "CapacitorShort"
    /\ Commit(e, "inject", "CapacitorShort", ent[e].component, CapacitorShort_inject(Ctx(ent[e])))
CallCapacitorShortEject(e) ==
    /\ ent[e].cls = "CapacitorShort"
    /\ Commit(e, "eject", "CapacitorShort", ent[e].component, CapacitorShort_eject(Ctx(ent[e])))

\* Observer and MeasureObserver inherit inject and eject, Observer activate
\* and deactivate as well.
CallTestUtilityInject(e) ==
    /\ ent[e].cls \in {"TestUtility", "Observer", "MeasureObserver"}
    /\ Commit(e, "inject", ent[e].cls, ent[e].component, TestUtility_inject(Ctx(ent[e])))
CallTestUtilityActivate(e) ==
    /\ ent[e].cls \in {"TestUtility", "Observer"}
    /\ Commit(e, "activate", ent[e].cls, ent[e].component, TestUtility_activate(Ctx(ent[e])))
CallTestUtilityDeactivate(e) ==
    /\ ent[e].cls \in {"TestUtility", "Observer"}
    /\ Commit(e, "deactivate", ent[e].cls, ent[e].component, TestUtility_deactivate(Ctx(ent[e])))
CallTestUtilityEject(e) ==
    /\ ent[e].cls \in {"TestUtility", "Observer", "MeasureObserver"}
    /\ Commit(e, "eject", ent[e].cls, ent[e].component, TestUtility_eject(Ctx(ent[e])))
CallMeasureObserverActivate(e) ==
    /\ ent[e].cls \in {"MeasureObserver", "InverterObserver"}
    /\ Commit(e, "activate", ent[e].cls, ent[e].component, MeasureObserver_activate(Ctx(ent[e])))
CallMeasureObserverDeactivate(e) ==
    /\ ent[e].cls \in {"MeasureObserver", "InverterObserver"}
    /\ Commit(e, "deactivate", ent[e].cls, ent[e].component, MeasureObserver_deactivate(Ctx(ent[e])))
CallInverterObserverInject(e) ==
    /\ ent[e].cls = "InverterObserver"
    /\ Commit(e, "inject", "InverterObserver", ent[e].component, InverterObserver_inject(Ctx(ent[e])))
CallInverterObserverEject(e) ==
    /\ ent[e].cls = "InverterObserver"
    /\ Commit(e, "eject", "InverterObserver", ent[e].component, InverterObserver_eject(Ctx(ent[e])))
CallInjectionPointInject(e) ==
    /\ ent[e].cls = "InjectionPoint"
    /\ Commit(e, "inject", "InjectionPoint", ent[e].component, InjectionPoint_inject(Ctx(ent[e])))
CallInjectionPointActivate(e) ==
    /\ ent[e].cls = "InjectionPoint"
    /\ Commit(e, "activate", "InjectionPoint", ent[e].component, InjectionPoint_activate(Ctx(ent[e])))
CallInjectionPointDeactivate(e) ==
    /\ ent[e].cls = "InjectionPoint"
    /\ Commit(e, "deactivate", "InjectionPoint", ent[e].component, InjectionPoint_deactivate(Ctx(ent[e])))
CallInjectionPointEject(e) ==
    /\ ent[e].cls = "InjectionPoint"
    /\ Commit(e, "eject", "InjectionPoint", ent[e].component, InjectionPoint_eject(Ctx(ent[e])))

Next ==
    \E e \in Entities :
        \/ \E component \in Components :
              \/ NewFault(e, component)
              \/ NewDrainOpenFault(e, component)
              \/ NewSourceOpenFault(e, component)
              \/ NewGateOpenFault(e, component)
              \/ NewGateDrainShort(e, component)
              \/ NewGateSourceShort(e, component)
              \/ NewDrainSourceShort(e, component)
              \/ NewResistorOpen(e, component)
              \/ NewResistorShort(e, component)
              \/ NewCapacitorShort(e, component)
              \/ \E i \in 1..6 : CallFetFaultFactory(e, component, i)
              \/ \E i \in 1..2 : CallResistorFaultFactory(e, component, i)
              \/ CallCapacitorFaultFactory(e, component)
        \/ NewTestUtility(e)
        \/ NewObserver(e)
        \/ \E node \in MeasuredNodes, th \in Thresholds : NewMeasureObserver(e, node, th)
        \/ \E node \in ObservedNodes : NewInverterObserver(e, node)
        \/ \E node \in ObservedNodes, pull_up \in BOOLEAN : NewInjectionPoint(e, node, pull_up)
        \/ CallFaultInject(e)
        \/ CallFaultEject(e)
        \/ CallDrainOpenFaultInject(e)
        \/ CallDrainOpenFaultEject(e)
        \/ CallSourceOpenFaultInject(e)
        \/ CallSourceOpenFaultEject(e)
        \/ CallGateOpenFaultInject(e)
        \/ CallGateOpenFaultEject(e)
        \/ CallGateDrainShortInject(e)
        \/ CallGateDrainShortEject(e)
        \/ CallGateSourceShortInject(e)
        \/ CallGateSourceShortEject(e)
        \/ CallDrainSourceShortInject(e)
        \/ CallDrainSourceShortEject(e)
        \/ CallResistorOpenInject(e)
        \/ CallResistorOpenEject(e)
        \/ CallResistorShortInject(e)
        \/ CallResistorShortEject(e)
        \/ CallCapacitorShortInject(e)
        \/ CallCapacitorShortEject(e)
        \/ CallTestUtilityInject(e)
        \/ CallTestUtilityActivate(e)
        \/ CallTestUtilityDeactivate(e)
        \/ CallTestUtilityEject(e)
        \/ CallMeasureObserverActivate(e)
        \/ CallMeasureObserverDeactivate(e)
        \/ CallInverterObserverInject(e)
        \/ CallInverterObserverEject(e)
        \/ CallInjectionPointInject(e)
        \/ CallInjectionPointActivate(e)
        \/ CallInjectionPointDeactivate(e)
        \/ CallInjectionPointEject(e)

Spec == Init /\ [][Next]_vars

----------------------------------------------------------------------------
\* The allocator on its own: a test script that calls insert_fet,
\* insert_source and insert_resistor directly on a freshly loaded netlist.

NetC == ("V1" :> Component(<<"VDD", "0">>, "3.3"))
     @@ ("V2" :> Component(<<"in", "0">>, "0"))
     @@ ("R1" :> Component(<<"VDD", "out">>, "10k"))
     @@ ("R3" :> Component(<<"out", "0">>, "10k"))
AllocNetlists == {EmptyStore, NetA, NetB, NetC}

InitAlloc ==
    /\ store \in AllocNetlists
    /\ directives = {}
    /\ fet_descriptor_index = -1
    /\ source_descriptor_index = -1
    /\ resistor_descriptor_index = -1
    /\ ent = [e \in Entities |-> Blank]
    /\ last = NoCall
    /\ trail = NoTrail
    /\ alloc_log = <<>>
    /\ store0 = store
    /\ obs = NoObs

CommitInsert(op, c) ==
    /\ c.fet_descriptor_index <= MaxIndex
    /\ c.source_descriptor_index <= MaxIndex
    /\ c.resistor_descriptor_index <= MaxIndex
    /\ store' = c.store
    /\ directives' = c.directives
    /\ fet_descriptor_index' = c.fet_descriptor_index
    /\ source_descriptor_index' = c.source_descriptor_index
    /\ resistor_descriptor_index' = c.resistor_descriptor_index
    /\ last' = [NoCall EXCEPT !.op = op, !.err = c.err, !.muts = c.muts,
                              !.taken = c.taken, !.same = (c.store = store)]
    /\ alloc_log' = alloc_log \o c.allocs
    /\ UNCHANGED <<ent, trail, store0, obs>>

CallInsertFet ==
    /\ Len(alloc_log) < MaxAllocs
    /\ CommitInsert("insert_fet", insert_fet(Ctx(Blank), "out", "in", ground_node, NMOS_MODEL))
CallInsertSource ==
    /\ Len(alloc_log) < MaxAllocs
    /\ CommitInsert("insert_source", insert_source(Ctx(Blank), "in", ground_node, VoltText(vdd)))
CallInsertResistor ==
    /\ Len(alloc_log) < MaxAllocs
    /\ CommitInsert("insert_resistor", insert_resistor(Ctx(Blank), "out", ground_node, "1k"))

\* netlist.remove_component(reference) on a component under a reference the
\* allocator handed out before
CallRemoveComponent(reference) ==
    /\ reference \in DOMAIN store
    /\ \E i \in 1..Len(alloc_log) : alloc_log[i] = reference
    /\ CommitInsert("remove_component", remove_component(Ctx(Blank), reference))

\* The index is handed out to the caller: no component is inserted.
HandedOut(c, prefix) ==
    IF c.err # "ok" THEN c
    ELSE [c EXCEPT !.allocs = Append(@, prefix \o ToString(c.ret))]

\* netlist.get_next_*_descriptor_index() called by the test script itself
CallGetNextFetDescriptorIndex ==
    /\ Len(alloc_log) < MaxAllocs
    /\ CommitInsert("get_next_fet_descriptor_index",
                    HandedOut(get_next_fet_descriptor_index(Ctx(Blank)), "M"))
CallGetNextSourceDescriptorIndex ==
    /\ Len(alloc_log) < MaxAllocs
    /\ CommitInsert("get_next_source_descriptor_index",
                    HandedOut(get_next_source_descriptor_index(Ctx(Blank)), "V"))
CallGetNextResistorDescriptorIndex ==
    /\ Len(alloc_log) < MaxAllocs
    /\ CommitInsert("get_next_resistor_descriptor_index",
                    HandedOut(get_next_resistor_descriptor_index(Ctx(Blank)), "R"))

\* The references the test script names when it edits a component itself: a
\* transistor, a resistor and a reference no netlist holds.
EditedReferences == {"M1", "R1", "M9"}

\* netlist.update_fet_ports(reference, 'a', 'b', 'c', 'd')
CallUpdateFetPorts(reference) ==
    CommitInsert("update_fet_ports",
                 update_fet_ports(Ctx(Blank), reference, "a", "b", "c", "d"))

\* netlist.set_component_value(reference, '2k')
CallSetComponentValue(reference) ==
    CommitInsert("set_component_value", set_component_value(Ctx(Blank), reference, "2k"))

NextAlloc ==
    \/ CallInsertFet
    \/ CallInsertSource
    \/ CallInsertResistor
    \/ \E reference \in DOMAIN store : CallRemoveComponent(reference)
    \/ CallGetNextFetDescriptorIndex
    \/ CallGetNextSourceDescriptorIndex
    \/ CallGetNextResistorDescriptorIndex
    \/ \E reference \in EditedReferences :
          \/ CallUpdateFetPorts(reference)
          \/ CallSetComponentValue(reference)

SpecAlloc == InitAlloc /\ [][NextAlloc]_vars

----------------------------------------------------------------------------
\* Observation: a test script that hands simulation results to its observer.

\* The instants (in nanoseconds) a measurement reports; NOT_TRIGGERED stands
\* for a measurement that reports nothing.
Stamps == {NOT_TRIGGERED, 5, 20}

\* (low fall, low rise, high fall, high rise)
Times == Stamps \X Stamps \X Stamps \X Stamps

\* The initial values of an operating-point trace: 0, 1.0, 1.6, 2.3, 3.2 and
\* 3.3 V, and the double next below 3.2 V.
InitialValues == {k * Tenth : k \in {0, 10, 16, 23, 32, 33}} \cup {32 * Tenth - 1}

TraceNames == {"V(" \o n \o ")" : n \in MeasuredNodes}

\* raw_op: None, or an operating-point file with a trace for every node
RawOps ==
    {NoneObject} \cup {Object([n \in TraceNames |-> <<v>>]) : v \in InitialValues}

NoEntries == [k \in {} |-> <<>>]

\* What the log holds for the .meas directive `name`: its instant under
\* "<name>_at" in lower case; for a measurement that never triggered an
\* empty list (listed) or nothing at all.
Entry(name, t, listed) ==
    IF t # NOT_TRIGGERED THEN (Lower(name) \o "_at") :> <<t>>
    ELSE IF listed THEN (Lower(name) \o "_at") :> <<>>
    ELSE NoEntries

\* The entries of a log in which the four measurements of observer o report
\* `times`.
EntriesOf(o, times, listed) ==
    Entry(o.low_result_variable \o "_FALL", times[1], listed)
        @@ Entry(o.low_result_variable \o "_RISE", times[2], listed)
        @@ Entry(o.high_result_variable \o "_FALL", times[3], listed)
        @@ Entry(o.high_result_variable \o "_RISE", times[4], listed)

\* The log of that simulation, as the reader of the log file or as a dict.
LogOf(o, times, listed, reader) ==
    IF reader THEN LogReader(EntriesOf(o, times, listed))
    ELSE Object(EntriesOf(o, times, listed))

\* The thresholds (low, high) the classification is exercised with.
ClassifyThresholds == {<<10 * Tenth, 23 * Tenth>>, <<23 * Tenth, 10 * Tenth>>}

\* The measurement instants the expectation is exercised with: a last fall
\* through the low threshold, a last rise through the high threshold, both
\* or none.
ObservedTimes ==
    {t \in Times : /\ t[2] = NOT_TRIGGERED
                   /\ t[3] = NOT_TRIGGERED
                   /\ t[4] \in {NOT_TRIGGERED, 20}}

\* The operating points the expectation is exercised with: none, at the
\* lower rail, at the upper rail.
ObservedRawOps ==
    {NoneObject} \cup {Object([n \in TraceNames |-> <<v>>]) : v \in {vss, vdd}}

\* The variable of the test script that holds the observer.
Observers == {"e1"}

\* The observation call returns or raises.
CommitObserve(e, op, times, log, raw_op, c) ==
    /\ ent' = [ent EXCEPT ![e] = c.self]
    /\ obs' = [op |-> op, e |-> e, times |-> times, log |-> log, raw_op |-> raw_op,
                err |-> c.err, ret |-> c.ret, before |-> ent[e]]
    /\ last' = [NoCall EXCEPT !.op = op, !.e = e, !.cls = ent[e].cls, !.err = c.err,
                              !.pre = ent[e].state, !.muts = c.muts,
                              !.same = (c.store = store /\ c.directives = directives)]
    /\ trail' = NoTrail
    /\ store' = c.store
    /\ directives' = c.directives
    /\ UNCHANGED <<fet_descriptor_index, source_descriptor_index,
                   resistor_descriptor_index, alloc_log, store0>>

\* The test script classifies one simulation.
CallClassify(e, times, listed, reader, raw_op) ==
    /\ ent[e].cls \in {"MeasureObserver", "InverterObserver"}
    /\ obs.op = None
    /\ LET log == LogOf(ent[e], times, listed, reader)
       IN CommitObserve(e, "_observe", times, log, raw_op,
                        MeasureObserver__observe(Ctx(ent[e]), log, raw_op))

NextClassify ==
    \E e \in Observers :
        \/ \E node \in MeasuredNodes, th \in ClassifyThresholds :
              NewMeasureObserver(e, node, th)
        \/ \E node \in ObservedNodes : NewInverterObserver(e, node)
        \/ \E times \in Times, listed \in BOOLEAN, reader \in BOOLEAN, raw_op \in RawOps :
              CallClassify(e, times, listed, reader, raw_op)

SpecClassify == Init /\ [][NextClassify]_vars

CallObserveExpected(e, times, raw_op) ==
    /\ ent[e].cls \in {"MeasureObserver", "InverterObserver"}
    /\ LET log == LogOf(ent[e], times, TRUE, TRUE)
       IN CommitObserve(e, "observe_expected", times, log, raw_op,
                        MeasureObserver_observe_expected(Ctx(ent[e]), log, raw_op))

\* observe_expected(raw_op=...): log keeps its default, None
CallObserveExpectedNoLog(e, raw_op) ==
    /\ ent[e].cls \in {"MeasureObserver", "InverterObserver"}
    /\ CommitObserve(e, "observe_expected", <<>>, NoneObject, raw_op,
                     MeasureObserver_observe_expected(Ctx(ent[e]), NoneObject, raw_op))

CallObserve(e, times, raw_op) ==
    /\ ent[e].cls \in {"MeasureObserver", "InverterObserver"}
    /\ LET log == LogOf(ent[e], times, TRUE, TRUE)
       IN CommitObserve(e, "observe", times, log, raw_op,
                        MeasureObserver_observe(Ctx(ent[e]), log, raw_op))

\* observe(raw_op=...): log keeps its default, None
CallObserveNoLog(e, raw_op) ==
    /\ ent[e].cls \in {"MeasureObserver", "InverterObserver"}
    /\ CommitObserve(e, "observe", <<>>, NoneObject, raw_op,
                     MeasureObserver_observe(Ctx(ent[e]), NoneObject, raw_op))

\* observe_expected and observe on an object of the base class Observer
CallObserverObserveExpected(e, raw_op) ==
    /\ ent[e].cls = "Observer"
    /\ CommitObserve(e, "observe_expected", <<>>, NoneObject, raw_op,
                     Observer_observe_expected(Ctx(ent[e]), NoneObject, raw_op))
CallObserverObserve(e, raw_op) ==
    /\ ent[e].cls = "Observer"
    /\ CommitObserve(e, "observe", <<>>, NoneObject, raw_op,
                     Observer_observe(Ctx(ent[e]), NoneObject, raw_op))

NextObserve ==
    \E e \in Observers :
        \/ NewObserver(e)
        \/ \E node \in MeasuredNodes, th \in Thresholds : NewMeasureObserver(e, node, th)
        \/ \E node \in ObservedNodes : NewInverterObserver(e, node)
        \/ CallTestUtilityInject(e)
        \/ CallTestUtilityActivate(e)
        \/ CallTestUtilityDeactivate(e)
        \/ CallTestUtilityEject(e)
        \/ CallMeasureObserverActivate(e)
        \/ CallMeasureObserverDeactivate(e)
        \/ CallInverterObserverInject(e)
        \/ CallInverterObserverEject(e)
        \/ \E times \in ObservedTimes, raw_op \in ObservedRawOps :
              \/ CallObserveExpected(e, times, raw_op)
              \/ CallObserve(e, times, raw_op)
        \/ \E raw_op \in ObservedRawOps :
              \/ CallObserveExpectedNoLog(e, raw_op)
              \/ CallObserveNoLog(e, raw_op)
              \/ CallObserverObserveExpected(e, raw_op)
              \/ CallObserverObserve(e, raw_op)

SpecObserve == Init /\ [][NextObserve]_vars

----------------------------------------------------------------------------
\* Directives: a test script that holds two observers on one netlist and
\* walks them through their lifecycles in any interleaving.

\* The nodes it measures: a node, the node of that name extended by the
\* result postfix, and the output node of an inverter observer.
IsolationNodes == {"out", "out" \o RESULT_NAME_POSTFIX, "out" \o NODE_POSTFIX}

NextIsolation ==
    \E e \in Entities :
        \/ \E node \in IsolationNodes, th \in Thresholds : NewMeasureObserver(e, node, th)
        \/ \E node \in ObservedNodes : NewInverterObserver(e, node)
        \/ CallTestUtilityInject(e)
        \/ CallTestUtilityEject(e)
        \/ CallMeasureObserverActivate(e)
        \/ CallMeasureObserverDeactivate(e)
        \/ CallInverterObserverInject(e)
        \/ CallInverterObserverEject(e)

SpecIsolation == Init /\ [][NextIsolation]_vars

----------------------------------------------------------------------------
\* Properties

ConcreteFaultClasses == FaultClasses \ {"Fault"}
ConcreteUtilityClasses == UtilityClasses \ {"TestUtility"}

\* The entity the trail follows is of one of the classes in `classes`.
TrailOf(classes, ops) ==
    /\ trail.ops = ops
    /\ trail.e \in Entities
    /\ ent[trail.e].cls \in classes

\* self.op(), resolved on the class of self
Dispatch(op, c) ==
    LET cls == c.self.cls IN
    IF op = "inject" THEN
        CASE cls = "DrainOpenFault" -> DrainOpenFault_inject(c)
          [] cls = "SourceOpenFault" -> SourceOpenFault_inject(c)
          [] cls = "GateOpenFault" -> GateOpenFault_inject(c)
          [] cls = "GateDrainShort" -> GateDrainShort_inject(c)
          [] cls = "GateSourceShort" -> GateSourceShort_inject(c)
          [] cls = "DrainSourceShort" -> DrainSourceShort_inject(c)
          [] cls = "CapacitorShort" -> CapacitorShort_inject(c)
          [] cls = "ResistorOpen" -> ResistorOpen_inject(c)
          [] cls = "ResistorShort" -> ResistorShort_inject(c)
          [] cls = "InverterObserver" -> InverterObserver_inject(c)
          [] cls = "InjectionPoint" -> InjectionPoint_inject(c)
          [] cls = "Fault" -> Fault_inject(c)
          [] OTHER -> TestUtility_inject(c)
    ELSE IF op = "eject" THEN
        CASE cls = "DrainOpenFault" -> DrainOpenFault_eject(c)
          [] cls = "SourceOpenFault" -> SourceOpenFault_eject(c)
          [] cls = "GateOpenFault" -> GateOpenFault_eject(c)
          [] cls = "GateDrainShort" -> GateDrainShort_eject(c)
          [] cls = "GateSourceShort" -> GateSourceShort_eject(c)
          [] cls = "DrainSourceShort" -> DrainSourceShort_eject(c)
          [] cls = "CapacitorShort" -> CapacitorShort_eject(c)
          [] cls = "ResistorOpen" -> ResistorOpen_eject(c)
          [] cls = "ResistorShort" -> ResistorShort_eject(c)
          [] cls = "InverterObserver" -> InverterObserver_eject(c)
          [] cls = "InjectionPoint" -> InjectionPoint_eject(c)
          [] cls = "Fault" -> Fault_eject(c)
          [] OTHER -> TestUtility_eject(c)
    ELSE IF op = "activate" THEN
        CASE cls \in {"MeasureObserver", "InverterObserver"} -> MeasureObserver_activate(c)
          [] cls = "InjectionPoint" -> InjectionPoint_activate(c)
          [] OTHER -> TestUtility_activate(c)
    ELSE self_deactivate(c)

\* The netlist and the object a call leaves behind, ready for the next call.
Continue(c) ==
    [c EXCEPT !.err = "ok", !.ret = None, !.muts = 0, !.reads = 0,
              !.allocs = <<>>, !.taken = FALSE]

\* The outcome of e.inject() immediately followed by e.eject(), from the
\* current state; an exception raised by inject ends the sequence.
RoundTrip(e) ==
    LET c1 == Dispatch("inject", Ctx(ent[e]))
    IN IF c1.err # "ok" THEN c1 ELSE Dispatch("eject", Continue(c1))

\* C1: for a fault of every kind (other than the base class) that is bound
\* to a component the store holds and is in NOT_INJECTED, inject immediately
\* followed by eject leaves the store with the same references, ports and
\* values as before inject, and the fault in NOT_INJECTED.  Checked for a
\* caller that keeps the inject/eject windows of the faults on one component
\* disjoint.
C1_RoundTrip ==
    \A e \in Entities :
        (/\ ent[e].cls \in ConcreteFaultClasses
         /\ ent[e].state = STATE_NOT_INJECTED
         /\ ent[e].component \in DOMAIN store
         /\ Exclusive(e))
            => /\ RoundTrip(e).store = store
               /\ RoundTrip(e).self.state = STATE_NOT_INJECTED

\* C2: for every utility kind, inject, activate, deactivate, eject leaves
\* the netlist with the same references, ports, values and measurement
\* directives as before inject, and the utility in NOT_INJECTED.
C2_RoundTripUtility ==
    TrailOf(ConcreteUtilityClasses, <<"inject", "activate", "deactivate", "eject">>)
        => /\ store = trail.store
           /\ directives = trail.directives
           /\ ent[trail.e].state = STATE_NOT_INJECTED

\* C3: eject on an entity in NOT_INJECTED always fails with NotInjected.
C3_EjectNotInjected ==
    (last.op = "eject" /\ last.pre = STATE_NOT_INJECTED)
        => last.err = "NotInjectedError"

\* C4: inject on an entity that is already injected (INJECTED or ACTIVE)
\* fails with AlreadyInjected and leaves the entity and the netlist unchanged.
C4_InjectTwice ==
    (last.op = "inject" /\ last.pre # STATE_NOT_INJECTED)
        => /\ last.err = "AlreadyInjectedError"
           /\ last.same
           /\ last.muts = 0

\* inject was called on a gate-open fault that is INJECTED
C4_Witness ==
    /\ last.op = "inject"
    /\ last.pre = STATE_INJECTED
    /\ last.cls = "GateOpenFault"
    /\ last.err = "AlreadyInjectedError"

\* C5: a call that the state guard rejects has applied no mutation to the
\* netlist.
C5_GuardBeforeMutation ==
    last.err \in LifecycleErrors => last.muts = 0

\* C6: eject on an ACTIVE utility succeeds and ends in NOT_INJECTED with
\* the directives and the components of the utility gone.
C6_EjectWhileActive ==
    (last.op = "eject" /\ last.pre = STATE_ACTIVE /\ last.cls \in ConcreteUtilityClasses)
        => /\ last.err = "ok"
           /\ ent[last.e].state = STATE_NOT_INJECTED
           /\ {ent[last.e].pmos, ent[last.e].nmos, ent[last.e].fet,
               ent[last.e].source} \cap DOMAIN store = {}

\* The lifecycle transitions of a utility that a successful call makes.
UtilityTransitions ==
    {<<"inject", STATE_NOT_INJECTED, STATE_INJECTED>>,
     <<"activate", STATE_INJECTED, STATE_ACTIVE>>,
     <<"deactivate", STATE_ACTIVE, STATE_INJECTED>>,
     <<"eject", STATE_INJECTED, STATE_NOT_INJECTED>>,
     <<"eject", STATE_ACTIVE, STATE_NOT_INJECTED>>}

\* C7: for every utility, activate in NOT_INJECTED fails with NotInjected,
\* activate in ACTIVE with AlreadyActive, deactivate in NOT_INJECTED with
\* NotInjected, deactivate in INJECTED with NotActive, the state unchanged in
\* each case; a call that succeeds makes one of the five transitions.
C7_UtilityLifecycle ==
    (last.cls \in UtilityClasses /\ last.op # "init") =>
        LET post == ent[last.e].state IN
        /\ (last.op = "activate" /\ last.pre = STATE_NOT_INJECTED)
              => (last.err = "NotInjectedError" /\ post = last.pre)
        /\ (last.op = "activate" /\ last.pre = STATE_ACTIVE)
              => (last.err = "AlreadyActiveError" /\ post = last.pre)
        /\ (last.op = "deactivate" /\ last.pre = STATE_NOT_INJECTED)
              => (last.err = "NotInjectedError" /\ post = last.pre)
        /\ (last.op = "deactivate" /\ last.pre = STATE_INJECTED)
              => (last.err = "NotActiveError" /\ post = last.pre)
        /\ last.err = "ok" => <<last.op, last.pre, post>> \in UtilityTransitions

\* deactivate was called on an injected, inactive injection point
C7_Witness ==
    /\ last.cls = "InjectionPoint"
    /\ last.op = "deactivate"
    /\ last.pre = STATE_INJECTED
    /\ last.err = "NotActiveError"

\* The prefix the constructor or factory named in `last` requires.
LastPrefix ==
    IF last.cls = "fet_fault_factory" THEN "M"
    ELSE IF last.cls = "resistor_fault_factory" THEN "R"
    ELSE IF last.cls = "capacitor_fault_factory" THEN "C"
    ELSE RequiredPrefix(last.cls)

\* C8: constructing a fault (directly or through a factory) on a reference
\* whose prefix does not match fails with FaultDoesNotSupportComponent,
\* reads no snapshot from the store, changes nothing and yields no object.
C8_Applicability ==
    (last.op = "init" /\ LastPrefix # "" /\ ~StartsWith(last.component, LastPrefix))
        => /\ last.err = "FaultDoesNotSupportComponent"
           /\ last.reads = 0
           /\ last.muts = 0
           /\ last.same
           /\ ent[last.e].cls = None

\* a transistor fault was constructed on a resistor that is in the store
C8_Witness ==
    /\ last.op = "init"
    /\ last.cls = "GateSourceShort"
    /\ StartsWith(last.component, "R")
    /\ last.component \in DOMAIN store
    /\ last.err = "FaultDoesNotSupportComponent"

\* C9: the reference allocated for a new component is never one that the
\* store holds at the moment of allocation.
C9_FreshReference == ~last.taken

\* The references of one kind in the allocation log.
KindLog(prefix) == SelectSeq(alloc_log, LAMBDA r : StartsWith(r, prefix))

HoldsNo(prefix) == \A r \in DOMAIN store0 : ~StartsWith(r, prefix)

\* C10: from a store that holds no transistor, N consecutive requests yield
\* M1, M2, ..., MN in that order; likewise V1..VN and R1..RN.
C10_ConsecutiveReferences ==
    \A prefix \in {"M", "V", "R"} :
        HoldsNo(prefix) =>
            \A i \in 1..Len(KindLog(prefix)) :
                KindLog(prefix)[i] = prefix \o ToString(i)

\* three transistors were requested from a store that held none
C10_Witness ==
    /\ HoldsNo("M")
    /\ DOMAIN store0 # {}
    /\ Len(KindLog("M")) >= 3

\* The references the store holds now and did not hold before the inject the
\* trail starts with.
Added == DOMAIN store \ DOMAIN trail.store

\* Every component the store held before that inject, other than those in
\* `except`, is in the store with the same ports and value.
Untouched(except) ==
    \A r \in DOMAIN trail.store \ except :
        r \in DOMAIN store /\ store[r] = trail.store[r]

\* A successful inject on an object of class cls was the last call.
Injected(cls) ==
    /\ last.op = "inject" /\ last.cls = cls /\ last.err = "ok"
    /\ trail.ops = <<"inject">> /\ trail.e = last.e

\* A successful eject on an object of class cls directly followed its inject.
Ejected(cls) ==
    /\ last.op = "eject" /\ last.cls = cls /\ last.err = "ok"
    /\ trail.ops = <<"inject", "eject">> /\ trail.e = last.e

\* f"{node}_{self.component}_open"
OpenNode(node, component) == node \o "_" \o component \o "_open"

\* C11: after inject of a drain-open fault on <ref> with construction-time
\* ports (d, g, s, b) the transistor's ports are (d_<ref>_open, g, s, b) and
\* exactly one resistor, with terminals (d_<ref>_open, d) and value 1e11, has
\* been added; after the following eject that resistor is not in the store
\* and the transistor's ports are (d, g, s, b).
C11_DrainOpen ==
    /\ Injected("DrainOpenFault") =>
          LET o == ent[last.e]
              ffp == o.fault_free_ports
              synthetic == OpenNode(ffp[1], o.component)
          IN /\ store[o.component].ports = <<synthetic, ffp[2], ffp[3], ffp[4]>>
             /\ Added = {o.open_resistor}
             /\ store[o.open_resistor] = Component(<<synthetic, ffp[1]>>, OPEN_RESISTANCE)
             /\ Untouched({o.component})
    /\ Ejected("DrainOpenFault") =>
          LET o == ent[last.e]
          IN /\ o.open_resistor \notin DOMAIN store
             /\ Added = {}
             /\ store[o.component].ports = o.fault_free_ports

\* a drain-open fault on M1 of the first netlist was injected and ejected
C11_Witness ==
    /\ Ejected("DrainOpenFault")
    /\ ent[last.e].component = "M1"
    /\ ent[last.e].fault_free_ports = <<"out", "in", "0", "0">>
    /\ ent[last.e].open_resistor = "R2"
    /\ store = trail.store

\* The fixed-priority classification rule on the four timestamps, the
\* trigger time, the thresholds and the set holding the initial value of the
\* operating-point trace (empty without a trace).
PriorityRule(low_fall, low_rise, high_fall, high_rise, trigger, low, high, op) ==
    IF low_fall > low_rise THEN <<LOW_VALUE, low_fall - trigger>>
    ELSE IF high_rise > high_fall THEN <<HIGH_VALUE, high_rise - trigger>>
    ELSE IF \E v \in op : v < low THEN <<LOW_VALUE, NOT_TRIGGERED>>
    ELSE IF \E v \in op : v > high THEN <<HIGH_VALUE, NOT_TRIGGERED>>
    ELSE <<UNCERTAIN_VALUE, NOT_TRIGGERED>>

\* The initial value the observation call was given for its measured node.
ObsInitialValue ==
    IF Len(obs.raw_op) = 0 THEN {}
    ELSE {obs.raw_op[1]["V(" \o obs.before.meas_node \o ")"][1]}

\* The rule applied to the inputs of the observation call in `obs`.
ObsRule ==
    PriorityRule(obs.times[1], obs.times[2], obs.times[3], obs.times[4],
                 TRIGGER_TIME, obs.before.low_threshold, obs.before.high_threshold,
                 ObsInitialValue)

\* The names of the four measurements the observation call looks up.
ObsNames ==
    {Lower(v \o edge \o "_at") :
        v \in {obs.before.low_result_variable, obs.before.high_result_variable},
        edge \in {"_FALL", "_RISE"}}

\* The log of the call is a dict that lacks one of them: the lookup raises
\* KeyError and the call has no timestamp for that measurement.
ObsKeyMissing == Len(obs.log) = 1 /\ ~(ObsNames \subseteq DOMAIN obs.log[1])

\* C12: for all four timestamps (each possibly the sentinel -1) and every
\* operating-point value or none, the classification of MeasureObserver is
\* the fixed-priority rule: LOW with low-fall minus trigger when low-fall >
\* low-rise, else HIGH with high-rise minus trigger when high-rise >
\* high-fall, else by the initial value against the thresholds, UNCERTAIN
\* without a trace; equal timestamps in a pair decide nothing.
C12_Classification ==
    obs.op = "_observe" =>
        IF ObsKeyMissing THEN obs.err = "KeyError" ELSE
        /\ obs.err = "ok"
        /\ obs.ret = ObsRule
        /\ (obs.times[1] = obs.times[2] /\ obs.times[3] = obs.times[4])
              => obs.ret[2] = NOT_TRIGGERED

\* both pairs were decisive and the observation was classified LOW
C12_Witness ==
    /\ obs.op = "_observe"
    /\ obs.times = <<20, 5, 5, 20>>
    /\ obs.ret = <<LOW_VALUE, 20 - TRIGGER_TIME>>

\* The classes that implement observation (the base class Observer only
\* declares it).
ObserverClasses == {"MeasureObserver", "InverterObserver"}

\* C13: observe on an observer without a captured expectation fails with
\* ObserverExpectationUnknown in every lifecycle state and for every log and
\* trace, and leaves the expectation unset and the lifecycle state, like the
\* rest of the observer and the netlist, unchanged.  (On an object of the
\* base class Observer, which captures no expectation, the call fails as
\* not implemented and changes nothing either.)
C13_ObserveBeforeExpected ==
    (obs.op = "observe" /\ obs.before.expectation = <<>>)
        => /\ obs.err = IF obs.before.cls \in ObserverClasses
                        THEN "ObserverExpectationUnknown"
                        ELSE "NotImplementedError"
           /\ ent[obs.e] = obs.before
           /\ last.same

\* observe was called with a log on an ACTIVE inverter observer that has no
\* expectation
C13_Witness ==
    /\ obs.op = "observe"
    /\ obs.before.cls = "InverterObserver"
    /\ obs.before.state = STATE_ACTIVE
    /\ obs.before.expectation = <<>>
    /\ obs.times = <<20, NOT_TRIGGERED, NOT_TRIGGERED, NOT_TRIGGERED>>

\* C14: with an expectation (c_e, t_e) captured, an observe call that
\* classifies (c_o, t_o) returns (c_o = c_e, [t_o - t_e]) and leaves the
\* expectation and the lifecycle state unchanged.
C14_ObserveCompares ==
    (obs.op = "observe" /\ obs.before.expectation # <<>> /\ obs.times # <<>>)
        => /\ obs.err = "ok"
           /\ obs.ret = <<ObsRule[1] = obs.before.expectation[1],
                          <<ObsRule[2] - obs.before.expectation[2]>> >>
           /\ ent[obs.e] = obs.before
           /\ last.same

\* an observation classified HIGH 10 ns after the trigger was compared with
\* an expectation of LOW 5 ns before it
C14_Witness ==
    /\ obs.op = "observe"
    /\ obs.before.expectation = <<LOW_VALUE, 5 - TRIGGER_TIME>>
    /\ obs.ret = <<FALSE, <<15>> >>

\* The references of the compensating components an object of its class
\* inserts at inject, as the object holds them (None for one not inserted).
ClassRefs(o) ==
    CASE o.cls \in {"DrainOpenFault", "SourceOpenFault"} -> {o.open_resistor}
      [] o.cls = "GateOpenFault" ->
            {o.open_resistor, o.drain_coupling_resistor, o.source_coupling_resistor}
      [] o.cls \in {"GateDrainShort", "GateSourceShort", "DrainSourceShort",
                    "CapacitorShort"} -> {o.short_resistor}
      [] o.cls = "InverterObserver" -> {o.pmos, o.nmos}
      [] o.cls = "InjectionPoint" -> {o.fet, o.source}
      [] OTHER -> {}

\* C15: in every reachable state, failed calls included, the compensating
\* components of each fault and utility are in the store when its state is
\* INJECTED or ACTIVE, and none of them is when its state is NOT_INJECTED.
C15_ComponentsFollowState ==
    \A e \in Entities :
        IF ent[e].state = STATE_NOT_INJECTED
        THEN ClassRefs(ent[e]) \cap DOMAIN store = {}
        ELSE ClassRefs(ent[e]) \subseteq DOMAIN store

\* Some sequence of at most n lifecycle calls on the object leads from one of
\* the situations in S to NOT_INJECTED.  When the calls lead to no situation
\* outside S, no longer sequence does either.
RECURSIVE CanRecover(_, _)
CanRecover(S, n) ==
    IF \E c \in S : c.self.state = STATE_NOT_INJECTED THEN TRUE
    ELSE IF n = 0 THEN FALSE
    ELSE LET T == S \cup {Continue(Dispatch(op, c)) :
                             op \in {"inject", "activate", "deactivate", "eject"},
                             c \in S}
         IN IF T = S THEN FALSE ELSE CanRecover(T, n - 1)

\* C16: from every reachable state, failed calls included, some continuation
\* of lifecycle calls on the entity brings it back to NOT_INJECTED (and the
\* netlist to its content before the first inject): no call leaves an entity
\* stuck in INJECTED or ACTIVE.
C16_Recoverable ==
    \A e \in Entities :
        ent[e].cls # None => CanRecover({Ctx(ent[e])}, MaxCalls)

\* The counter of the kind with reference prefix p, now and after the step.
Counter(p) ==
    IF p = "M" THEN fet_descriptor_index
    ELSE IF p = "V" THEN source_descriptor_index
    ELSE resistor_descriptor_index
CounterNext(p) ==
    IF p = "M" THEN fet_descriptor_index'
    ELSE IF p = "V" THEN source_descriptor_index'
    ELSE resistor_descriptor_index'

\* The smallest index k >= 1 for which the references refs hold no prefix k.
FirstUnused(prefix, refs) ==
    CHOOSE k \in 1..(Cardinality(refs) + 1) :
        /\ (prefix \o ToString(k)) \notin refs
        /\ \A j \in 1..(k - 1) : (prefix \o ToString(j)) \in refs

\* The index in a reference handed out by the allocator.
RefIndex(r) == CHOOSE k \in 1..(MaxIndex + 1) : SubSeq(r, 1, 1) \o ToString(k) = r

\* The indices handed out for each kind are strictly increasing.
AllocIncreasing ==
    \A prefix \in {"M", "V", "R"} :
        \A i, j \in 1..Len(KindLog(prefix)) :
            i < j => RefIndex(KindLog(prefix)[i]) < RefIndex(KindLog(prefix)[j])

\* A step that allocates takes the smallest unused index of the store when
\* it is the first of its kind and the previous index plus one otherwise,
\* and leaves the counters of the other kinds alone; a step that does not
\* allocate leaves all three counters alone.
AllocStep ==
    IF Len(alloc_log') = Len(alloc_log) + 1
    THEN LET r == alloc_log'[Len(alloc_log')]
             p == SubSeq(r, 1, 1)
             k == IF Counter(p) = -1 THEN FirstUnused(p, DOMAIN store)
                  ELSE Counter(p) + 1
         IN /\ r = p \o ToString(k)
            /\ CounterNext(p) = k
            /\ \A q \in {"M", "V", "R"} \ {p} : CounterNext(q) = Counter(q)
    ELSE \A q \in {"M", "V", "R"} : CounterNext(q) = Counter(q)

\* C17: per kind, the first allocation returns the smallest index k >= 1
\* unused in the store at that moment and every later one the previous index
\* plus one, whatever the store holds; the indices of a kind are strictly
\* increasing, so a freed reference is never handed out again; allocating
\* one kind leaves the counters of the other kinds unchanged.
C17_AllocatorCounters == []AllocIncreasing /\ [][AllocStep]_vars

\* M3 was handed out after M2 had been handed out and removed again
C17_Witness ==
    /\ store0 = NetA
    /\ last.op = "insert_fet"
    /\ alloc_log = <<"M2", "M3">>
    /\ "M2" \notin DOMAIN store
    /\ "M3" \in DOMAIN store

\* C18: after inject of a source-open fault on <ref> with construction-time
\* ports (d, g, s, b) the ports are (d, g, s_<ref>_open, s_<ref>_open) and
\* exactly one resistor of 1e11 with terminals (s_<ref>_open, s) has been
\* added; eject removes that resistor and restores the ports to (d, g, s, b),
\* with the original bulk b also when b differs from s.
C18_SourceOpen ==
    /\ Injected("SourceOpenFault") =>
          LET o == ent[last.e]
              ffp == o.fault_free_ports
              synthetic == OpenNode(ffp[3], o.component)
          IN /\ store[o.component].ports = <<ffp[1], ffp[2], synthetic, synthetic>>
             /\ Added = {o.open_resistor}
             /\ store[o.open_resistor] = Component(<<synthetic, ffp[3]>>, OPEN_RESISTANCE)
             /\ Untouched({o.component})
    /\ Ejected("SourceOpenFault") =>
          LET o == ent[last.e]
          IN /\ o.open_resistor \notin DOMAIN store
             /\ Added = {}
             /\ store[o.component].ports = o.fault_free_ports

\* a source-open fault on M2, whose bulk is not its source, was injected and
\* ejected
C18_Witness ==
    /\ Ejected("SourceOpenFault")
    /\ ent[last.e].component = "M2"
    /\ ent[last.e].fault_free_ports = <<"out", "in", "mid", "0">>
    /\ store[ent[last.e].component].ports[4] = "0"

\* C19: after inject of a gate-open fault on <ref> with construction-time
\* ports (d, g, s, b) the ports are (d, g_<ref>_open, s, b) and exactly three
\* resistors have been added: one of 1e12 between g_<ref>_open and the
\* coupling node g_<ref>_open_couple, and two of 5e11 that couple the
\* floating gate (its synthetic or its coupling node) to d and to s; eject
\* removes exactly these three and restores the gate port to g.
C19_GateOpen ==
    /\ Injected("GateOpenFault") =>
          LET o == ent[last.e]
              ffp == o.fault_free_ports
              synthetic == OpenNode(ffp[2], o.component)
              couple == synthetic \o "_couple"
              gate == store[o.open_resistor]
              drain == store[o.drain_coupling_resistor]
              source == store[o.source_coupling_resistor]
          IN /\ store[o.component].ports = <<ffp[1], synthetic, ffp[3], ffp[4]>>
             /\ Added = ClassRefs(o)
             /\ Cardinality(Added) = 3
             /\ gate = Component(<<synthetic, couple>>, GATE_RESISTANCE)
             /\ drain.value = COUPLING_RESISTANCE
             /\ drain.ports[1] = ffp[1] /\ drain.ports[2] \in {synthetic, couple}
             /\ source.value = COUPLING_RESISTANCE
             /\ source.ports[1] = ffp[3] /\ source.ports[2] \in {synthetic, couple}
             /\ Untouched({o.component})
    /\ Ejected("GateOpenFault") =>
          LET o == ent[last.e]
          IN /\ ClassRefs(o) \cap DOMAIN store = {}
             /\ Added = {}
             /\ Untouched({o.component})
             /\ store[o.component].ports = o.fault_free_ports

\* a gate-open fault on M1 holds three resistors in the store
C19_Witness ==
    /\ Injected("GateOpenFault")
    /\ ent[last.e].component = "M1"
    /\ ent[last.e].open_resistor = "R2"
    /\ ent[last.e].drain_coupling_resistor = "R3"
    /\ ent[last.e].source_coupling_resistor = "R4"

ShortClasses == {"GateDrainShort", "GateSourceShort", "DrainSourceShort", "CapacitorShort"}

\* The two construction-time terminals a short fault bridges.
ShortTerminals(o) ==
    LET ffp == o.fault_free_ports
    IN CASE o.cls = "GateDrainShort" -> {ffp[2], ffp[1]}
         [] o.cls = "GateSourceShort" -> {ffp[2], ffp[3]}
         [] o.cls = "DrainSourceShort" -> {ffp[1], ffp[3]}
         [] o.cls = "CapacitorShort" -> {ffp[1], ffp[2]}

\* C20: inject and eject of the four short faults never change the ports or
\* the value of the target; inject adds exactly one resistor of value 1
\* between the two named construction-time terminals of the target, and
\* eject removes exactly that resistor and nothing else.
C20_Shorts ==
    (last.cls \in ShortClasses /\ last.op \in {"inject", "eject"}) =>
        LET o == ent[last.e]
        IN /\ last.err # "ok" => last.muts = 0
           /\ Injected(last.cls) =>
                 /\ Added = {o.short_resistor}
                 /\ LET r == store[o.short_resistor]
                    IN /\ r.value = SHORT_RESISTANCE
                       /\ Len(r.ports) = 2
                       /\ {r.ports[1], r.ports[2]} = ShortTerminals(o)
                 /\ Untouched({})
           /\ (last.op = "eject" /\ last.err = "ok") =>
                 /\ last.muts = 1
                 /\ o.short_resistor \notin DOMAIN store
           /\ Ejected(last.cls) => store = trail.store

\* a gate-drain short on M2 and a capacitor short were injected, and the
\* capacitor short was ejected right after its inject
C20_Witness ==
    /\ Ejected("CapacitorShort")
    /\ \E e \in Entities :
          /\ ent[e].cls = "GateDrainShort"
          /\ ent[e].state = STATE_INJECTED
          /\ ent[e].short_resistor \in DOMAIN store

ValueFaultClasses == {"ResistorOpen", "ResistorShort"}

\* The value inject of a resistor fault of class cls writes.
FaultValue(cls) == IF cls = "ResistorOpen" THEN OPEN_RESISTANCE ELSE SHORT_RESISTANCE

\* C21: inject of a resistor-open or resistor-short fault changes only the
\* value of the target (to 1e11 for open, to 1 for short) and adds or
\* removes no component; the following eject sets the value of the target to
\* the value captured at construction, whatever value the store held at
\* inject time, and changes nothing else.
C21_ResistorValue ==
    (last.cls \in ValueFaultClasses /\ last.op \in {"inject", "eject"}) =>
        LET o == ent[last.e]
        IN /\ Injected(last.cls) =>
                 /\ store = [trail.store EXCEPT ![o.component].value = FaultValue(o.cls)]
                 /\ last.muts = 1
           /\ Ejected(last.cls) =>
                 /\ store = [trail.store EXCEPT ![o.component].value = o.fault_free_value]
                 /\ last.muts = 1

\* a resistor-short fault constructed on the untouched R1 was injected while
\* R1 held the value of an open fault, and ejected
C21_Witness ==
    /\ Ejected("ResistorShort")
    /\ ent[last.e].component = "R1"
    /\ ent[last.e].fault_free_value = "10k"
    /\ trail.store["R1"].value = OPEN_RESISTANCE
    /\ store["R1"].value = "10k"

OpenClasses == {"DrainOpenFault", "SourceOpenFault", "GateOpenFault"}

\* The ports inject of an open fault gives its target, from the snapshot.
InjectedPorts(o) ==
    LET ffp == o.fault_free_ports
    IN CASE o.cls = "DrainOpenFault" ->
                <<OpenNode(ffp[1], o.component), ffp[2], ffp[3], ffp[4]>>
         [] o.cls = "SourceOpenFault" ->
                <<ffp[1], ffp[2], OpenNode(ffp[3], o.component),
                  OpenNode(ffp[3], o.component)>>
         [] o.cls = "GateOpenFault" ->
                <<ffp[1], OpenNode(ffp[2], o.component), ffp[3], ffp[4]>>

\* C22: inject and eject of a drain-open, source-open or gate-open fault
\* read no ports from the store and write ports made from the snapshot taken
\* at construction only: after a successful eject the four ports of the
\* target are the snapshot, whatever ports the store held for the target
\* since construction.
C22_SnapshotOnly ==
    (last.cls \in OpenClasses /\ last.op \in {"inject", "eject"}) =>
        LET o == ent[last.e]
        IN /\ last.reads = 0
           /\ (last.op = "inject" /\ last.err = "ok") =>
                 store[o.component].ports = InjectedPorts(o)
           /\ (last.op = "eject" /\ last.err = "ok") =>
                 store[o.component].ports = o.fault_free_ports

\* a source-open fault was ejected while a gate-open fault constructed on
\* the same untouched transistor is injected
C22_Witness ==
    /\ last.op = "eject" /\ last.err = "ok" /\ last.cls = "SourceOpenFault"
    /\ ent[last.e].fault_free_ports = <<"out", "in", "mid", "0">>
    /\ store[ent[last.e].component].ports = <<"out", "in", "mid", "0">>
    /\ \E e \in Entities \ {last.e} :
          /\ ent[e].cls = "GateOpenFault"
          /\ ent[e].state = STATE_INJECTED
          /\ ent[e].component = ent[last.e].component
          /\ ent[e].fault_free_ports = ent[last.e].fault_free_ports

\* The static value of the source of injection point o, and its waveform.
RailValue(o) == IF o.pull_up THEN VoltText(vdd) ELSE VoltText(vss)
PulseValue(o) == IF o.pull_up THEN Pulse(vdd, vss) ELSE Pulse(vss, vdd)

\* C23: in every reachable state the source of an InjectionPoint holds the
\* static rail value (VDD for pull-up, VSS for pull-down) while the point is
\* INJECTED and the pulse from that rail to the opposite one, with the fixed
\* timing, while it is ACTIVE.
C23_SourceFollowsState ==
    \A e \in Entities :
        ent[e].cls = "InjectionPoint" =>
            LET o == ent[e]
            IN /\ o.state = STATE_INJECTED =>
                     o.source \in DOMAIN store /\ store[o.source].value = RailValue(o)
               /\ o.state = STATE_ACTIVE =>
                     o.source \in DOMAIN store /\ store[o.source].value = PulseValue(o)

\* C24: observe_expected on a simulation it classifies UNCERTAIN raises
\* nothing and stores (UNCERTAIN, offset) as the expectation; a later observe
\* against that expectation succeeds and returns true exactly when its own
\* classification is UNCERTAIN; observe_expected returns None to its caller
\* whatever the classification is.
C24_UncertainExpectation ==
    /\ (obs.op = "observe_expected" /\ obs.times # <<>>) =>
          /\ obs.err = "ok"
          /\ obs.ret = None
          /\ ent[obs.e].expectation = ObsRule
          /\ ent[obs.e] = [obs.before EXCEPT !.expectation = ObsRule]
          /\ last.same
    /\ (obs.op = "observe" /\ obs.times # <<>> /\ obs.before.expectation # <<>>) =>
          (obs.before.expectation[1] = UNCERTAIN_VALUE =>
              /\ obs.err = "ok"
              /\ obs.ret[1] = (ObsRule[1] = UNCERTAIN_VALUE))

\* an UNCERTAIN expectation is stored and an observation classified LOW was
\* compared with it
C24_Witness ==
    /\ obs.op = "observe"
    /\ obs.before.expectation = <<UNCERTAIN_VALUE, NOT_TRIGGERED>>
    /\ ObsRule[1] = LOW_VALUE
    /\ obs.ret[1] = FALSE

\* No other observer of the test script measures the node e measures.
OnlyObserver(e) ==
    \A e2 \in Entities \ {e} :
        ent[e2].cls \in ObserverClasses => ent[e2].meas_node # ent[e].meas_node

\* C25: in every reachable state the four measurement directives of an
\* observer that is the only observer of its measured node are in the
\* netlist exactly when the observer is ACTIVE.
C25_DirectivesFollowState ==
    \A e \in Entities :
        (ent[e].cls \in ObserverClasses /\ OnlyObserver(e)) =>
            IF ent[e].state = STATE_ACTIVE
            THEN MeasDirectives(ent[e]) \subseteq directives
            ELSE MeasDirectives(ent[e]) \cap directives = {}

\* C26: an inject that fails because the store rejects one of its steps
\* leaves the entity in NOT_INJECTED and has applied no mutation to the
\* netlist.
C26_InjectAllOrNothing ==
    (last.op = "inject" /\ last.err = StoreError)
        => /\ ent[last.e].state = STATE_NOT_INJECTED
           /\ last.muts = 0

\* C27: a deactivate or eject of one observer leaves every directive of
\* every other observer that is ACTIVE in the netlist.
C27_DirectiveIsolation ==
    (last.op \in {"deactivate", "eject"} /\ last.cls \in ObserverClasses) =>
        \A e \in Entities \ {last.e} :
            (ent[e].cls \in ObserverClasses /\ ent[e].state = STATE_ACTIVE)
                => MeasDirectives(ent[e]) \subseteq directives

====
